---- MODULE Spec2Model ----
(***************************************************************************)
(* Model of react-input-buffer: the SamplingBuffer, the MetricsCollector   *)
(* and the InputSanitizer pipeline that wires them to the window's events, *)
(* the animation-frame queue and the yield scheduler.                      *)
(*                                                                         *)
(* The specifications share the variables:                                 *)
(*   Spec          one SamplingBuffer driven by buffer()/destroy() and the *)
(*                 host's animation frames, its callback being an opaque   *)
(*                 handler (tests, useInputBuffer)                         *)
(*   SpecMetrics   one MetricsCollector driven through its counting API    *)
(*   SpecPipeline  the InputSanitizer effect: interceptor, buffer,         *)
(*                 scheduler continuation, collector, cleanup and re-run   *)
(*   SpecDetector  one PollingRateDetector fed by a pointer device         *)
(*   SpecScheduler one YieldScheduler, its callers and the host's job      *)
(*                 queues; FairSpecScheduler adds that the host runs every *)
(*                 job it has queued                                       *)
(*   SpecInterceptor one EventInterceptor, the caller of detach() and      *)
(*                 updateEventTypes() and the events window dispatches     *)
(*   SpecCollector one MetricsCollector under short sequences of calls of  *)
(*                 all its methods, and the consumer of its snapshots      *)
(*   SpecProcessing one MetricsCollector under a long run of               *)
(*                 recordProcessingTime calls                              *)
(*   SpecSteady    the mounted pipeline under a stream of wheel events     *)
(*   SpecReporting the InputSanitizer effect and its reporting timer       *)
(*   SpecReentrant one SamplingBuffer whose callback may call buffer() or  *)
(*                 destroy() on it; FairSpecReentrant adds that the host   *)
(*                 runs every refresh callback it has queued               *)
(*   SpecClassify  the listeners of the InputSanitizer with the detector   *)
(*                 behind shouldBuffer                                     *)
(***************************************************************************)
EXTENDS Integers, Sequences, FiniteSets, TLC

VARIABLES
    \* SamplingBuffer fields (src/src/buffer/SamplingBuffer.ts:7-12)
    isActive, latestEvent, accumulatedDeltas, rafId, shouldAccumulateDeltas,
    \* host: animation-frame callbacks requested and not yet run or cancelled,
    \* the next handle requestAnimationFrame returns, performance.now()
    rafQueue, nextRafId, now,
    \* observation of the buffer: calls of buffer(), calls of the flush
    \* callback, refresh callbacks run, what the first destroy() saw
    submittedLog, deliveredLog, refreshLog, destroyInfo,
    \* host: the id of the next Event object dispatched
    nextEventId,
    \* the MetricsCollector (metricsRef.current)
    collector,
    \* InputSanitizer: the effect is in place; cleanups run so far; event types
    \* with a listener on window (EventInterceptor.activeListeners); handleFlush
    \* calls suspended in the scheduler's yield; metricsIntervalRef.current
    mounted, teardowns, activeListeners, pendingYields, metricsIntervalRef,
    \* host: capture listeners registered on window, the id of the next listener
    \* function created, interval timers running, the id of the next timer
    windowListeners, nextListenerId, intervalTimers, nextTimerId,
    \* observation: events that reached the application's own listeners,
    \* handleFlush calls that ran to their end
    appReceived, completedFlushes,
    \* the PollingRateDetector (its fields as a record)
    detector,
    \* host: performance.now() in eighths of a millisecond, counted from the
    \* detector's construction or last reset(); the pointer device's report
    \* interval in the same unit, and how often it changed
    perfNow, pollInterval, rateChanges,
    \* observation of the detector: the times of the detectPollingRate calls
    \* since construction or the last reset(), what the last call returned,
    \* what the last reset() found
    callTimes, lastResult, resetFound,
    \* YieldScheduler: the processWithYield calls made (each an async
    \* activation), the calls of the native scheduler.yield, the number of
    \* jobs (promise reactions, timer callbacks) the host has run
    yieldCalls, nativeLog, hostTurn,
    \* observation of the EventInterceptor: the runs of its listeners (what
    \* each one called on the event it received), the calls of its public
    \* methods
    listenerLog, interceptorCalls,
    \* observation of the MetricsCollector: the objects getMetrics() returned,
    \* the values passed to recordProcessingTime since construction or reset(),
    \* the number of calls of its methods and the method called last
    snapshots, recordedTimes, collectorCalls,
    \* observation of the reporting timer: for every interval timer started the
    \* number of cleanups run before the effect run that started it; the
    \* firings of the timers with the onMetrics calls each one made
    timerOwner, onMetricsLog

(***************************************************************************)
(* Bounds                                                                  *)
(***************************************************************************)
MaxSubmits == 3
MaxDestroys == 2
MaxRawEvents == 100
MaxFlushedEvents == 20
MaxClock == 1
MaxReruns == 1
MaxWindowEvents == 2
MaxDetectorCalls == 11
MaxRateChanges == 1
MaxYieldCalls == 2
MaxInterceptorCalls == 2
MaxDispatches == 2
MaxCollectorCalls == 4
MaxRecordedTimes == 101
MaxSteadyEvents == 4
MaxTimerFirings == 2
MaxClassifyEvents == 11
MaxOtherEvents == 1
MaxVariedTimes == 2

(***************************************************************************)
(* JavaScript values: a number is an integer or NaN; a missing field reads *)
(* as undefined.  All three are records so that they compare.              *)
(***************************************************************************)
Num(n) == [tag |-> "number", n |-> n]
NaN == [tag |-> "NaN", n |-> 0]
Undefined == [tag |-> "undefined", n |-> 0]

\* a + b on JavaScript values: anything that is not a number gives NaN
JSAdd(a, b) == IF a.tag = "number" /\ b.tag = "number" THEN Num(a.n + b.n) ELSE NaN

NullEvent == [type |-> "null", deltaX |-> Undefined, deltaY |-> Undefined,
              deltaZ |-> Undefined, id |-> 0]

ZeroDeltas == [deltaX |-> Num(0), deltaY |-> Num(0), deltaZ |-> Num(0)]

NoRaf == 0

NoTimer == 0

\* delta payloads of the wheel events the environment dispatches
WheelDeltas == { <<1, 2, 0>>, <<-1, 0, 3>>, <<0, 0, 0>> }

\* the events the environment can produce: WheelEvents carry three numeric
\* deltas; pointermove, touchmove and scroll events have no delta fields
EventShapes ==
    { [type |-> "wheel", deltaX |-> Num(d[1]), deltaY |-> Num(d[2]), deltaZ |-> Num(d[3])]
        : d \in WheelDeltas }
    \cup { [type |-> t, deltaX |-> Undefined, deltaY |-> Undefined, deltaZ |-> Undefined]
        : t \in {"pointermove", "touchmove", "scroll"} }

\* the events dispatched on window in the pipeline
PipelineShapes ==
    { shape \in EventShapes :
        shape.type = "pointermove" \/ (shape.type = "wheel" /\ shape.deltaX = Num(1)) }

\* a fresh Event object: the id is its identity
NewEvent(shape, id) ==
    [type |-> shape.type, deltaX |-> shape.deltaX, deltaY |-> shape.deltaY,
     deltaZ |-> shape.deltaZ, id |-> id]

(***************************************************************************)
(* SamplingBuffer                                                          *)
(***************************************************************************)
isScrollEvent(event) == event.type = "wheel" \/ event.type = "scroll"

storeLatest_keepFirst(pending, event) == IF pending = NullEvent THEN event ELSE pending

\* this.latestEvent = event
storeLatest(pending, event) == event

storeEvent_mergeIntoPending(pending, event) ==
    IF pending = NullEvent THEN event ELSE [event EXCEPT !.id = pending.id]

\* the object latestEvent refers to after the assignment: the event passed in
storeEvent(pending, event) == storeLatest(pending, event)

addDeltas_overwrite(acc, event) ==
    [deltaX |-> JSAdd(Num(0), event.deltaX),
     deltaY |-> JSAdd(Num(0), event.deltaY),
     deltaZ |-> JSAdd(Num(0), event.deltaZ)]

\* this.accumulatedDeltas.deltaX += wheelEvent.deltaX; ... deltaY ...; ... deltaZ
addDeltas(acc, event) ==
    [deltaX |-> JSAdd(acc.deltaX, event.deltaX),
     deltaY |-> JSAdd(acc.deltaY, event.deltaY),
     deltaZ |-> JSAdd(acc.deltaZ, event.deltaZ)]

\* this.rafId === null negated: a flush is scheduled
flushScheduled_never(id) == FALSE

flushScheduled(id) == id # NoRaf

buffer_ignoreActive(event) ==
    /\ latestEvent' = storeEvent(latestEvent, event)
    /\ accumulatedDeltas' =
          IF shouldAccumulateDeltas /\ isScrollEvent(event)
          THEN addDeltas(accumulatedDeltas, event)
          ELSE accumulatedDeltas
    /\ IF ~flushScheduled(rafId)
       THEN /\ rafId' = nextRafId
            /\ rafQueue' = rafQueue \cup {nextRafId}
            /\ nextRafId' = nextRafId + 1
       ELSE UNCHANGED <<rafId, rafQueue, nextRafId>>
    /\ UNCHANGED isActive

\* buffer(event): its effect on the buffer and on the animation-frame queue
buffer(event) ==
    IF ~isActive
    THEN UNCHANGED <<isActive, latestEvent, accumulatedDeltas, rafId, rafQueue, nextRafId>>
    ELSE /\ latestEvent' = storeEvent(latestEvent, event)
         /\ accumulatedDeltas' =
               IF shouldAccumulateDeltas /\ isScrollEvent(event)
               THEN addDeltas(accumulatedDeltas, event)
               ELSE accumulatedDeltas
         /\ IF ~flushScheduled(rafId)
            THEN /\ rafId' = nextRafId
                 /\ rafQueue' = rafQueue \cup {nextRafId}
                 /\ nextRafId' = nextRafId + 1
            ELSE UNCHANGED <<rafId, rafQueue, nextRafId>>
         /\ UNCHANGED isActive

destroy_noCancel ==
    /\ isActive' = FALSE
    /\ rafId' = NoRaf
    /\ UNCHANGED rafQueue
    /\ latestEvent' = NullEvent
    /\ accumulatedDeltas' = ZeroDeltas
    /\ UNCHANGED nextRafId

\* destroy()
destroy ==
    /\ isActive' = FALSE
    /\ IF rafId # NoRaf
       THEN /\ rafQueue' = rafQueue \ {rafId}
            /\ rafId' = NoRaf
       ELSE UNCHANGED <<rafQueue, rafId>>
    /\ latestEvent' = NullEvent
    /\ accumulatedDeltas' = ZeroDeltas
    /\ UNCHANGED nextRafId

flushDeltas_ignoreType(event, acc) == IF shouldAccumulateDeltas THEN acc ELSE Undefined

\* the deltas argument of the flush callback: a copy of the accumulated deltas
\* or undefined
flushDeltas(event, acc) ==
    IF shouldAccumulateDeltas /\ isScrollEvent(event) THEN acc ELSE Undefined

flush_noReset ==
    /\ IF latestEvent # NullEvent
       THEN /\ deliveredLog' = Append(deliveredLog,
                   [event |-> latestEvent,
                    deltas |-> flushDeltas(latestEvent, accumulatedDeltas),
                    refresh |-> Len(refreshLog) + 1])
            /\ latestEvent' = NullEvent
            /\ UNCHANGED accumulatedDeltas
       ELSE UNCHANGED <<deliveredLog, latestEvent, accumulatedDeltas>>
    /\ rafId' = NoRaf

\* flush(): run by the animation-frame callback; deliveredLog records the call
\* this.flushCallback(this.latestEvent, deltas)
flush ==
    /\ IF latestEvent # NullEvent
       THEN /\ deliveredLog' = Append(deliveredLog,
                   [event |-> latestEvent,
                    deltas |-> flushDeltas(latestEvent, accumulatedDeltas),
                    refresh |-> Len(refreshLog) + 1])
            /\ latestEvent' = NullEvent
            /\ accumulatedDeltas' = ZeroDeltas
       ELSE UNCHANGED <<deliveredLog, latestEvent, accumulatedDeltas>>
    /\ rafId' = NoRaf

(***************************************************************************)
(* IEEE-754 double arithmetic on the quotients the collector and the       *)
(* detector compute.                                                       *)
(* A non-zero double is sign * 0.m1 m2 ... m53 * 2^exp with m1 = 1; mant   *)
(* is the sequence of its 53 bits.  Long division and multiplication work  *)
(* on groups of 9 bits (digits in base 512).                               *)
(***************************************************************************)
\* 2^n for 0 <= n <= 30
Pow2(n) ==
    <<1, 2, 4, 8, 16, 32, 64, 128, 256, 512, 1024, 2048, 4096, 8192, 16384, 32768,
      65536, 131072, 262144, 524288, 1048576, 2097152, 4194304, 8388608, 16777216,
      33554432, 67108864, 134217728, 268435456, 536870912, 1073741824>>[n + 1]

Abs(n) == IF n < 0 THEN -n ELSE n

DZero == [sign |-> 0, exp |-> 0, mant |-> <<>>]

\* the bits of n digits in base 512, most significant first
DigitsToBits(digits, n) ==
    [i \in 1..(9 * n) |-> (digits[((i - 1) \div 9) + 1] \div Pow2(8 - ((i - 1) % 9))) % 2]

\* the n digits in base 512 of a sequence of 9 * n bits
BitsToDigits(bits, n) ==
    [j \in 1..n |->
        256 * bits[9 * j - 8] + 128 * bits[9 * j - 7] + 64 * bits[9 * j - 6]
        + 32 * bits[9 * j - 5] + 16 * bits[9 * j - 4] + 8 * bits[9 * j - 3]
        + 4 * bits[9 * j - 2] + 2 * bits[9 * j - 1] + bits[9 * j]]

\* the first n digits in base 512 of rem/den after the point, 0 <= rem < den,
\* followed by the remainder left
RECURSIVE DivDigits(_, _, _)
DivDigits(rem, den, n) ==
    IF n = 0 THEN <<rem>>
    ELSE <<(512 * rem) \div den>> \o DivDigits((512 * rem) % den, den, n - 1)

\* bits + 1; a carry out of the first bit lengthens the sequence
IncBits(bits) ==
    IF \A i \in DOMAIN bits : bits[i] = 1
    THEN <<1>> \o [i \in 1..Len(bits) |-> 0]
    ELSE LET p == CHOOSE i \in DOMAIN bits :
                     bits[i] = 0 /\ \A j \in (i + 1)..Len(bits) : bits[j] = 1
         IN  [i \in 1..Len(bits) |-> IF i < p THEN bits[i] ELSE IF i = p THEN 1 ELSE 0]

\* round-to-nearest, ties-to-even, of sign * 0.bits * 2^exp (bits[1] = 1, at
\* least 54 bits; sticky: something non-zero follows the bits given)
RoundToDouble(sign, exp, bits, sticky) ==
    LET mant == SubSeq(bits, 1, 53)
        rest == sticky \/ \E i \in 55..Len(bits) : bits[i] = 1
        up == bits[54] = 1 /\ (rest \/ mant[53] = 1)
        inc == IncBits(mant)
    IN  IF ~up THEN [sign |-> sign, exp |-> exp, mant |-> mant]
        ELSE IF Len(inc) > 53
             THEN [sign |-> sign, exp |-> exp + 1, mant |-> SubSeq(inc, 1, 53)]
             ELSE [sign |-> sign, exp |-> exp, mant |-> inc]

\* the e with 2^(e-1) <= a/b < 2^e, for positive a and b
RECURSIVE ExpOf(_, _, _)
ExpOf(a, b, e) ==
    IF a >= b THEN ExpOf(a, 2 * b, e + 1)
    ELSE IF 2 * a < b THEN ExpOf(2 * a, b, e - 1)
    ELSE e

\* the double a / b of two integers, b > 0
FDiv(a, b) ==
    IF a = 0 THEN DZero
    ELSE LET e == ExpOf(Abs(a), b, 0)
             num == IF e < 0 THEN Abs(a) * Pow2(-e) ELSE Abs(a)
             den == IF e > 0 THEN b * Pow2(e) ELSE b
             quot == DivDigits(num, den, 6)
         IN  RoundToDouble(IF a < 0 THEN -1 ELSE 1, e,
                           DigitsToBits(SubSeq(quot, 1, 6), 6), quot[7] # 0)

\* digits * k + carry in base 512: two digits of carry, then Len(digits) digits
RECURSIVE MulDigits(_, _, _)
MulDigits(digits, k, carry) ==
    IF digits = <<>> THEN <<carry \div 512, carry % 512>>
    ELSE LET t == digits[Len(digits)] * k + carry
         IN  MulDigits(SubSeq(digits, 1, Len(digits) - 1), k, t \div 512) \o <<t % 512>>

\* the double x * k for an integer k, 0 < k <= 1000
FMulInt(x, k) ==
    IF x.sign = 0 THEN DZero
    ELSE LET prod == DigitsToBits(MulDigits(BitsToDigits(x.mant \o <<0>>, 6), k, 0), 8)
             first == CHOOSE i \in 1..19 : prod[i] = 1 /\ \A j \in 1..(i - 1) : prod[j] = 0
         IN  RoundToDouble(x.sign, x.exp + 19 - first, SubSeq(prod, first, 72), FALSE)

\* Math.round(x) for |x| < 2^27: the nearest integer, a tie going towards
\* +Infinity
MathRound(x) ==
    IF x.sign = 0 \/ x.exp < 0 THEN 0
    ELSE LET top == BitsToDigits(x.mant, 3)
             int == (262144 * top[1] + 512 * top[2] + top[3]) \div Pow2(27 - x.exp)
             half == x.mant[x.exp + 1] = 1
             more == \E i \in (x.exp + 2)..53 : x.mant[i] = 1
         IN  IF x.sign > 0
             THEN int + (IF half THEN 1 ELSE 0)
             ELSE -(int + (IF half /\ more THEN 1 ELSE 0))

\* a >= b for two numbers given by as many digits in base 512
GeqDigits(a, b) ==
    \/ a = b
    \/ LET i == CHOOSE i \in DOMAIN a : a[i] # b[i] /\ \A j \in 1..(i - 1) : a[j] = b[j]
       IN  a[i] > b[i]

\* a - b - borrow for a >= b + borrow, both given by as many digits in base 512
RECURSIVE SubDigits(_, _, _)
SubDigits(a, b, borrow) ==
    IF a = <<>> THEN <<>>
    ELSE LET n == Len(a)
             t == a[n] - b[n] - borrow
         IN  SubDigits(SubSeq(a, 1, n - 1), SubSeq(b, 1, n - 1), IF t < 0 THEN 1 ELSE 0)
                 \o <<IF t < 0 THEN t + 512 ELSE t>>

\* long division by den (6 digits, the first at least 256) of the remainder rem
\* (8 digits, rem < den) followed by n zero digits: the n quotient digits, then
\* 1 if a remainder is left and 0 if not.  The quotient digit is at most 2
\* below its estimate from the leading digits.
RECURSIVE LongDiv(_, _, _)
LongDiv(rem, den, n) ==
    IF n = 0 THEN <<IF \E i \in DOMAIN rem : rem[i] # 0 THEN 1 ELSE 0>>
    ELSE LET shifted == Tail(rem) \o <<0>>
             est == (shifted[2] * 512 + shifted[3]) \div den[1]
             hi == IF est > 511 THEN 511 ELSE est
             q == CHOOSE c \in (hi - 2)..hi :
                      /\ c >= 0
                      /\ GeqDigits(shifted, MulDigits(den, c, 0))
                      /\ ~GeqDigits(shifted, MulDigits(den, c + 1, 0))
         IN  <<q>> \o LongDiv(SubDigits(shifted, MulDigits(den, q, 0), 0), den, n - 1)

\* the double k / x for an integer k, 0 < k < 2^17, and a double x > 0
FDivInto(k, x) ==
    LET den == BitsToDigits(x.mant \o <<0>>, 6)
        quot == LongDiv(<<0, 0, k \div 512, k % 512, 0, 0, 0, 0>>, den, 9)
        bits == DigitsToBits(SubSeq(quot, 1, 9), 9)
        first == CHOOSE i \in 1..18 : bits[i] = 1 /\ \A j \in 1..(i - 1) : bits[j] = 0
    IN  RoundToDouble(x.sign, 19 - first - x.exp, SubSeq(bits, first, 81), quot[10] # 0)

(***************************************************************************)
(* MetricsCollector: an object is a record of its fields; every method is  *)
(* the function from the object before the call to the object after it.    *)
(* Frame timestamps are whole milliseconds, processing times whole numbers *)
(* of eighths of a millisecond: they and their sums are exact as doubles.  *)
(***************************************************************************)
TicksPerMs == 8

MAX_FRAME_SAMPLES == 60
MAX_PROCESSING_SAMPLES == 100

Infinity == [tag |-> "Infinity", n |-> 0]

\* the metrics object the constructor and reset() build
NewMetrics(t) ==
    [pollingRate |-> "unknown", detectedHz |-> 0, rawEventCount |-> 0,
     flushedEventCount |-> 0, reductionPercentage |-> 0, currentFPS |-> Num(0),
     averageProcessingTime |-> DZero, timestamp |-> t]

\* new MetricsCollector() at time t
NewCollector(t) ==
    [metrics |-> NewMetrics(t), frameTimestamps |-> <<>>, eventProcessingTimes |-> <<>>]

\* Math.round((filtered / rawEventCount) * 100), or 0 when nothing was recorded
updateReductionPercentage(c) ==
    [c EXCEPT !.metrics.reductionPercentage =
        IF c.metrics.rawEventCount = 0 THEN 0
        ELSE MathRound(FMulInt(
                 FDiv(c.metrics.rawEventCount - c.metrics.flushedEventCount,
                      c.metrics.rawEventCount), 100))]

recordRawEvent(c) ==
    updateReductionPercentage([c EXCEPT !.metrics.rawEventCount = @ + 1])

recordFlushedEvent(c) ==
    updateReductionPercentage([c EXCEPT !.metrics.flushedEventCount = @ + 1])

\* the sum of times[lo..hi]
RECURSIVE SumRange(_, _, _)
SumRange(times, lo, hi) ==
    IF lo > hi THEN 0
    ELSE IF lo = hi THEN times[lo]
    ELSE SumRange(times, lo, (lo + hi) \div 2) + SumRange(times, ((lo + hi) \div 2) + 1, hi)

\* sum / length in milliseconds as a double, or 0 for an empty window
updateAverageProcessingTime(c) ==
    [c EXCEPT !.metrics.averageProcessingTime =
        IF Len(c.eventProcessingTimes) = 0 THEN DZero
        ELSE FDiv(SumRange(c.eventProcessingTimes, 1, Len(c.eventProcessingTimes)),
                  TicksPerMs * Len(c.eventProcessingTimes))]

\* recordProcessingTime(timeMs), timeMs given in eighths of a millisecond
recordProcessingTime_evictNewest(c, timeMs) ==
    LET pushed == Append(c.eventProcessingTimes, timeMs)
        kept == IF Len(pushed) > MAX_PROCESSING_SAMPLES
                THEN SubSeq(pushed, 1, MAX_PROCESSING_SAMPLES) ELSE pushed
    IN  updateAverageProcessingTime([c EXCEPT !.eventProcessingTimes = kept])

recordProcessingTime(c, timeMs) ==
    LET pushed == Append(c.eventProcessingTimes, timeMs)
        kept == IF Len(pushed) > MAX_PROCESSING_SAMPLES THEN Tail(pushed) ELSE pushed
    IN  updateAverageProcessingTime([c EXCEPT !.eventProcessingTimes = kept])

\* updateFPS() at time t: (length - 1) / duration * 1000, rounded; a zero
\* duration divides by zero, which gives Infinity
updateFPS(c, t) ==
    LET pushed == Append(c.frameTimestamps, t)
        kept == IF Len(pushed) > MAX_FRAME_SAMPLES THEN Tail(pushed) ELSE pushed
        duration == t - kept[1]
    IN  [c EXCEPT !.frameTimestamps = kept,
                  !.metrics.currentFPS =
                      IF Len(kept) >= 2
                      THEN IF duration = 0 THEN Infinity
                           ELSE Num(MathRound(FMulInt(FDiv(Len(kept) - 1, duration), 1000)))
                      ELSE @]

updatePollingRate(c, pollingRate, detectedHz) ==
    [c EXCEPT !.metrics.pollingRate = pollingRate, !.metrics.detectedHz = detectedHz]

\* getMetrics() at time t: a copy of the metrics with a new timestamp
getMetrics(c, t) == [c.metrics EXCEPT !.timestamp = t]

\* the object getMetrics() returns: its fields, and whether it is the
\* collector's own metrics object (the spread makes a new one)
getMetricsObject_sameObject(c, t) == [shared |-> TRUE, fields |-> c.metrics]

getMetricsObject(c, t) == [shared |-> FALSE, fields |-> getMetrics(c, t)]

\* reset() at time t
reset_keepWindows(c, t) == [c EXCEPT !.metrics = NewMetrics(t)]

reset(c, t) == NewCollector(t)

(***************************************************************************)
(* EventInterceptor: window's capture listeners are pairs of an event type *)
(* and a listener function (its id); activeListeners is the Map from type  *)
(* to listener as a set of such pairs, one per type                        *)
(***************************************************************************)
\* the listeners attach(eventTypes) creates, one per list entry, the first
\* having the id base
installed(eventTypes, base) ==
    { [type |-> eventTypes[i], id |-> base + i - 1] : i \in DOMAIN eventTypes }

\* activeListeners after attach(eventTypes) on the Map map: Map.set keeps, for every type, the
\* listener created last
attach(map, eventTypes, base) ==
    { l \in map : \A i \in DOMAIN eventTypes : eventTypes[i] # l.type }
    \cup { l \in installed(eventTypes, base) :
             \A m \in installed(eventTypes, base) : m.type = l.type => m.id <= l.id }

\* detach(): removeEventListener for every entry of the Map, then clear()
detach ==
    /\ windowListeners' = windowListeners \ activeListeners
    /\ activeListeners' = {}
    /\ UNCHANGED nextListenerId

\* updateEventTypes(eventTypes): detach(), then attach(eventTypes)
updateEventTypes(eventTypes) ==
    /\ windowListeners' =
          (windowListeners \ activeListeners) \cup installed(eventTypes, nextListenerId)
    /\ activeListeners' = attach({}, eventTypes, nextListenerId)
    /\ nextListenerId' = nextListenerId + Len(eventTypes)

\* one run of the listener l on the event e, shouldBufferCallback(e) giving
\* answer: what the listener called, in order
listener_forwardWhenBuffered(l, e, answer) ==
    [id |-> l.id, event |-> e.id, type |-> e.type, answer |-> answer,
     calls |-> <<"shouldBuffer">>
               \o (IF answer THEN <<"stopImmediatePropagation", "eventHandler">> ELSE <<>>)]

listener(l, e, answer) ==
    [id |-> l.id, event |-> e.id, type |-> e.type, answer |-> answer,
     calls |-> <<"shouldBuffer">>
               \o (IF answer THEN <<"stopImmediatePropagation">> ELSE <<>>)
               \o <<"eventHandler">>]

\* window dispatches e to the capture listeners ls registered for its type,
\* in the order of their registration, until one of them has called
\* stopImmediatePropagation; answers[id] is what shouldBufferCallback gives
\* the listener id
RECURSIVE dispatchEvent(_, _, _)
dispatchEvent(ls, e, answers) ==
    IF ls = {} THEN <<>>
    ELSE LET first == CHOOSE l \in ls : \A m \in ls : l.id <= m.id
             run == listener(first, e, answers[first.id])
         IN  IF "stopImmediatePropagation" \in { run.calls[i] : i \in DOMAIN run.calls }
             THEN <<run>>
             ELSE <<run>> \o dispatchEvent(ls \ {first}, e, answers)

(***************************************************************************)
(* PollingRateDetector: the object is a record of its fields; a method is  *)
(* the function from the object before the call to the object after it.    *)
(* Timestamps are whole numbers of eighths of a millisecond: they, their    *)
(* differences and the sums of these are exact as doubles.                 *)
(***************************************************************************)
SAMPLE_SIZE == 10
HIGH_POLLING_THRESHOLD == 1
HIGH_POLLING_COUNT_THRESHOLD == 5

\* cachedPollingRate = null
NoRate == "null"

\* new PollingRateDetector()
NewDetector == [eventTimestamps |-> <<>>, cachedPollingRate |-> NoRate, detectedHz |-> 0]

\* calculateDeltas(): deltas[i] = eventTimestamps[i + 1] - eventTimestamps[i]
calculateDeltas(timestamps) ==
    [i \in 1..(Len(timestamps) - 1) |-> timestamps[i + 1] - timestamps[i]]

estimateHz_meanOverSamples(deltas) ==
    IF Len(deltas) = 0 THEN 0
    ELSE LET avgDelta == FDiv(SumRange(deltas, 1, Len(deltas)), TicksPerMs * SAMPLE_SIZE)
         IN  IF avgDelta.sign > 0 THEN MathRound(FDivInto(1000, avgDelta)) ELSE 0

\* estimateHz(deltas): Math.round(1000 / avgDelta) with avgDelta = sum / length
\* in milliseconds, or 0 when avgDelta is not positive
estimateHz(deltas) ==
    IF Len(deltas) = 0 THEN 0
    ELSE LET avgDelta == FDiv(SumRange(deltas, 1, Len(deltas)), TicksPerMs * Len(deltas))
         IN  IF avgDelta.sign > 0 THEN MathRound(FDivInto(1000, avgDelta)) ELSE 0

highPollingCount_inclusive(deltas) ==
    Cardinality({ i \in DOMAIN deltas : deltas[i] <= HIGH_POLLING_THRESHOLD * TicksPerMs })

\* deltas.filter((d) => d < this.HIGH_POLLING_THRESHOLD).length
highPollingCount(deltas) ==
    Cardinality({ i \in DOMAIN deltas : deltas[i] < HIGH_POLLING_THRESHOLD * TicksPerMs })

windowIncomplete_offByOne(timestamps) == Len(timestamps) <= SAMPLE_SIZE

\* this.eventTimestamps.length < this.SAMPLE_SIZE
windowIncomplete(timestamps) == Len(timestamps) < SAMPLE_SIZE

detectPollingRate_noCache(d, t) ==
    LET pushed == Append(d.eventTimestamps, t)
        kept == IF Len(pushed) > SAMPLE_SIZE THEN Tail(pushed) ELSE pushed
        deltas == calculateDeltas(kept)
    IN  IF windowIncomplete(kept) THEN [d EXCEPT !.eventTimestamps = kept]
        ELSE [eventTimestamps |-> kept,
              cachedPollingRate |->
                  IF highPollingCount(deltas) >= HIGH_POLLING_COUNT_THRESHOLD
                  THEN "high" ELSE "standard",
              detectedHz |-> estimateHz(deltas)]

\* detectPollingRate(event) at time t: the detector after the call
detectPollingRate(d, t) ==
    IF d.cachedPollingRate # NoRate THEN d
    ELSE LET pushed == Append(d.eventTimestamps, t)
             kept == IF Len(pushed) > SAMPLE_SIZE THEN Tail(pushed) ELSE pushed
             deltas == calculateDeltas(kept)
         IN  IF windowIncomplete(kept) THEN [d EXCEPT !.eventTimestamps = kept]
             ELSE [eventTimestamps |-> kept,
                   cachedPollingRate |->
                       IF highPollingCount(deltas) >= HIGH_POLLING_COUNT_THRESHOLD
                       THEN "high" ELSE "standard",
                   detectedHz |-> estimateHz(deltas)]

\* what detectPollingRate returns, given the detector after the call: the
\* cached classification, or 'unknown' while there is none
detectPollingRateResult(after) ==
    IF after.cachedPollingRate # NoRate THEN after.cachedPollingRate ELSE "unknown"

getDetectedHz(d) == d.detectedHz

detectorReset_keepWindow(d) == [d EXCEPT !.cachedPollingRate = NoRate, !.detectedHz = 0]

\* reset() of the detector
detectorReset(d) == NewDetector

(***************************************************************************)
(* YieldScheduler: a processWithYield call is an async activation, a       *)
(* record of where it is suspended (state) and of what it did (trace).     *)
(* The native scheduler.yield is the host's: on each call it is absent,    *)
(* returns a promise the host resolves, throws, or returns a promise that  *)
(* rejects.                                                                *)
(***************************************************************************)
Priorities == {"user-visible", "background"}

NativeOutcomes == {"absent", "resolves", "throws", "rejects"}

\* the activation at the call of processWithYield(callback, priority)
NewYieldCall(priority, native, turn) ==
    [priority |-> priority, native |-> native, state |-> "called", calledAt |-> turn,
     workAt |-> 0, workRuns |-> 0, trace |-> <<>>]

isSchedulerSupported(native) == native # "absent"

\* the arguments of the call scheduler.yield()
yieldArguments(priority) == <<>>

\* fallbackYield(): new Promise((resolve) => setTimeout(resolve, 0))
fallbackYield(call) == [call EXCEPT !.state = "timer", !.trace = Append(@, "setTimeout")]

catchYieldError_rethrow(call) ==
    [call EXCEPT !.state = "rejected", !.trace = Append(@, "reject")]

\* catch (error) { await this.fallbackYield(); }
catchYieldError(call) == fallbackYield(call)

\* yieldToScheduler(priority) up to its first suspension
yieldToScheduler(call) ==
    LET yielded == [call EXCEPT !.trace = Append(@, "scheduler.yield")] IN
    IF call.native = "throws" THEN catchYieldError(yielded)
    ELSE IF call.native = "rejects" THEN [yielded EXCEPT !.state = "nativeRejecting"]
    ELSE [yielded EXCEPT !.state = "native"]

\* callback(), then the promise of processWithYield resolves
finishYield(call, turn) ==
    [call EXCEPT !.state = "resolved", !.workRuns = @ + 1, !.workAt = turn,
                 !.trace = Append(Append(@, "callback"), "resolve")]

processWithYield_noAwait(call) ==
    finishYield(IF isSchedulerSupported(call.native) THEN yieldToScheduler(call)
                ELSE fallbackYield(call), call.calledAt)

\* processWithYield(callback, priority) up to its first suspension
processWithYield(call) ==
    IF isSchedulerSupported(call.native) THEN yieldToScheduler(call) ELSE fallbackYield(call)

(***************************************************************************)
(* The state after construction: an InputSanitizer whose effect has run    *)
(* once (new collector, new buffer, interceptor attached for the default   *)
(* event types, reporting timer started when onMetrics or debug is given)  *)
(***************************************************************************)
NotDestroyed == [calls |-> 0, submits |-> 0, deliveries |-> 0, refreshes |-> 0,
                 scheduled |-> FALSE, inCallback |-> FALSE]

DEFAULT_EVENT_TYPES == <<"pointermove", "wheel", "touchmove", "scroll">>

\* the props a render can pass: eventTypes, accumulateDeltas, and whether
\* onMetrics or debug is given (reporting: onMetrics is given, debug is not)
PropsChoices ==
    { [eventTypes |-> DEFAULT_EVENT_TYPES, accumulateDeltas |-> TRUE, reporting |-> TRUE],
      [eventTypes |-> <<"wheel", "scroll">>, accumulateDeltas |-> FALSE, reporting |-> FALSE] }

vars == <<isActive, latestEvent, accumulatedDeltas, rafId, shouldAccumulateDeltas,
          rafQueue, nextRafId, now, nextEventId,
          submittedLog, deliveredLog, refreshLog, destroyInfo,
          collector,
          mounted, teardowns, activeListeners, pendingYields, metricsIntervalRef,
          windowListeners, nextListenerId, intervalTimers, nextTimerId,
          appReceived, completedFlushes,
          detector, perfNow, pollInterval, rateChanges, callTimes, lastResult, resetFound,
          yieldCalls, nativeLog, hostTurn,
          listenerLog, interceptorCalls, snapshots, recordedTimes, collectorCalls,
          timerOwner, onMetricsLog>>

bufferFields == <<isActive, latestEvent, accumulatedDeltas, rafId, shouldAccumulateDeltas>>
bufferLogs == <<submittedLog, deliveredLog, refreshLog, destroyInfo>>
pipelineVars == <<mounted, teardowns, activeListeners, pendingYields, metricsIntervalRef,
                  windowListeners, nextListenerId, intervalTimers, nextTimerId,
                  appReceived, completedFlushes>>
detectorVars == <<detector, perfNow, pollInterval, rateChanges, callTimes, lastResult,
                  resetFound>>
schedulerVars == <<yieldCalls, nativeLog, hostTurn>>
interceptorLogs == <<listenerLog, interceptorCalls>>
collectorLogs == <<snapshots, recordedTimes, collectorCalls>>
reportLogs == <<timerOwner, onMetricsLog>>
observedCalls == <<interceptorLogs, collectorLogs, reportLogs>>

\* new SamplingBuffer(onFlush, accumulateDeltas)
InitBuffer ==
    /\ isActive = TRUE
    /\ latestEvent = NullEvent
    /\ accumulatedDeltas = ZeroDeltas
    /\ rafId = NoRaf
    /\ rafQueue = {}
    /\ nextRafId = 1
    /\ submittedLog = <<>>
    /\ deliveredLog = <<>>
    /\ refreshLog = <<>>
    /\ destroyInfo = NotDestroyed

NoInterval == -1

\* no reset() yet
NoReset == [found |-> "none", zeroHz |-> FALSE]

\* new PollingRateDetector(), no event reported yet
InitDetector ==
    /\ detector = NewDetector
    /\ perfNow = 0
    /\ pollInterval = NoInterval
    /\ rateChanges = 0
    /\ callTimes = <<>>
    /\ lastResult = "none"
    /\ resetFound = NoReset

\* new YieldScheduler(), no call made yet
InitScheduler ==
    /\ yieldCalls = <<>>
    /\ nativeLog = <<>>
    /\ hostTurn = 0

\* nothing observed yet
InitObserved ==
    /\ listenerLog = <<>>
    /\ interceptorCalls = <<>>
    /\ snapshots = <<>>
    /\ recordedTimes = <<>>
    /\ collectorCalls = [count |-> 0, last |-> "constructor"]
    /\ onMetricsLog = <<>>

Init ==
    /\ InitBuffer
    /\ now = 0
    /\ nextEventId = 1
    /\ collector = NewCollector(0)
    /\ mounted = TRUE
    /\ teardowns = 0
    /\ pendingYields = <<>>
    /\ \E props \in PropsChoices :
          /\ shouldAccumulateDeltas = props.accumulateDeltas
          /\ activeListeners = attach({}, props.eventTypes, 1)
          /\ windowListeners = installed(props.eventTypes, 1)
          /\ nextListenerId = Len(props.eventTypes) + 1
          /\ metricsIntervalRef = IF props.reporting THEN 1 ELSE NoTimer
          /\ intervalTimers = IF props.reporting THEN {1} ELSE {}
          /\ nextTimerId = IF props.reporting THEN 2 ELSE 1
          /\ timerOwner = [timer \in (IF props.reporting THEN {1} ELSE {}) |-> 0]
    /\ appReceived = <<>>
    /\ completedFlushes = <<>>
    /\ InitDetector
    /\ InitScheduler
    /\ InitObserved

(***************************************************************************)
(* Spec: one SamplingBuffer, its callers and its host                      *)
(***************************************************************************)
\* a caller passes a fresh event to buffer()
Submit ==
    /\ nextEventId <= MaxSubmits
    /\ \E shape \in EventShapes :
          LET event == NewEvent(shape, nextEventId) IN
          /\ buffer(event)
          /\ submittedLog' = Append(submittedLog, event)
    /\ nextEventId' = nextEventId + 1
    /\ UNCHANGED <<shouldAccumulateDeltas, now, deliveredLog, refreshLog, destroyInfo,
                   collector, pipelineVars, detectorVars, schedulerVars, observedCalls>>

\* what the first destroy() saw, and how many calls there were
noteDestroy ==
    IF destroyInfo.calls = 0
    THEN [calls |-> 1, submits |-> Len(submittedLog),
          deliveries |-> Len(deliveredLog), refreshes |-> Len(refreshLog),
          scheduled |-> rafQueue # {}, inCallback |-> FALSE]
    ELSE [destroyInfo EXCEPT !.calls = @ + 1]

\* a caller calls destroy()
Destroy ==
    /\ destroyInfo.calls < MaxDestroys
    /\ destroy
    /\ destroyInfo' = noteDestroy
    /\ UNCHANGED <<shouldAccumulateDeltas, now, nextEventId, submittedLog, deliveredLog,
                   refreshLog, collector, pipelineVars, detectorVars, schedulerVars, observedCalls>>

\* the host runs a requested animation-frame callback: () => this.flush()
AnimationFrame ==
    /\ \E id \in rafQueue : rafQueue' = rafQueue \ {id}
    /\ flush
    /\ refreshLog' = Append(refreshLog, Len(submittedLog))
    /\ UNCHANGED <<isActive, shouldAccumulateDeltas, nextRafId, now, nextEventId,
                   submittedLog, destroyInfo, collector, pipelineVars, detectorVars, schedulerVars, observedCalls>>

Next ==
    \/ Submit
    \/ Destroy
    \/ AnimationFrame

Spec == Init /\ [][Next]_vars

(***************************************************************************)
(* SpecReentrant: one SamplingBuffer whose flush callback may call back    *)
(* into the buffer (a handler given to useInputBuffer that calls the       *)
(* buffered handler, or that tears the buffer down) before it returns      *)
(***************************************************************************)
\* the buffer's fields at the moment flush() calls the callback
thisBuffer ==
    [isActive |-> isActive, latestEvent |-> latestEvent,
     accumulatedDeltas |-> accumulatedDeltas, rafId |-> rafId, requested |-> FALSE]

\* buffer(event) on the fields b; requested tells that it called
\* requestAnimationFrame
bufferInCallback(b, event) ==
    IF ~b.isActive THEN b
    ELSE [b EXCEPT !.latestEvent = storeEvent(b.latestEvent, event),
                   !.accumulatedDeltas =
                       IF shouldAccumulateDeltas /\ isScrollEvent(event)
                       THEN addDeltas(b.accumulatedDeltas, event) ELSE @,
                   !.rafId = IF ~flushScheduled(b.rafId) THEN nextRafId ELSE @,
                   !.requested = ~flushScheduled(b.rafId)]

\* destroy() on the fields b; the callback whose handle is cancelled is the
\* one that is running
destroyInCallback_staysActive(b) ==
    [b EXCEPT !.rafId = NoRaf, !.latestEvent = NullEvent, !.accumulatedDeltas = ZeroDeltas]

destroyInCallback(b) ==
    [b EXCEPT !.isActive = FALSE, !.rafId = NoRaf, !.latestEvent = NullEvent,
              !.accumulatedDeltas = ZeroDeltas]

\* the statements of flush() after the callback has returned
afterCallback_keepDeltas(b) ==
    [b EXCEPT !.latestEvent = NullEvent, !.rafId = NoRaf]

afterCallback(b) ==
    [b EXCEPT !.latestEvent = NullEvent, !.accumulatedDeltas = ZeroDeltas, !.rafId = NoRaf]

\* flush() with a pending event, the callback leaving the fields as b
flushReentered(b) ==
    /\ latestEvent # NullEvent
    /\ deliveredLog' = Append(deliveredLog,
           [event |-> latestEvent,
            deltas |-> flushDeltas(latestEvent, accumulatedDeltas),
            refresh |-> Len(refreshLog) + 1])
    /\ isActive' = afterCallback(b).isActive
    /\ latestEvent' = afterCallback(b).latestEvent
    /\ accumulatedDeltas' = afterCallback(b).accumulatedDeltas
    /\ rafId' = afterCallback(b).rafId
    /\ nextRafId' = IF b.requested THEN nextRafId + 1 ELSE nextRafId

\* the host runs the animation-frame callback and the flush callback calls
\* buffer() with a fresh event
FrameCallbackBuffers ==
    /\ nextEventId <= MaxSubmits
    /\ \E id \in rafQueue, shape \in EventShapes :
          LET event == NewEvent(shape, nextEventId)
              b == bufferInCallback(thisBuffer, event)
          IN  /\ flushReentered(b)
              /\ rafQueue' = (rafQueue \ {id}) \cup (IF b.requested THEN {b.rafId} ELSE {})
              /\ submittedLog' = Append(submittedLog, event)
    /\ nextEventId' = nextEventId + 1
    /\ refreshLog' = Append(refreshLog, Len(submittedLog))
    /\ UNCHANGED <<shouldAccumulateDeltas, now, destroyInfo, collector, pipelineVars,
                   detectorVars, schedulerVars, observedCalls>>

\* the host runs the animation-frame callback and the flush callback calls
\* destroy()
FrameCallbackDestroys ==
    /\ destroyInfo.calls < MaxDestroys
    /\ \E id \in rafQueue : rafQueue' = rafQueue \ {id}
    /\ flushReentered(destroyInCallback(thisBuffer))
    /\ destroyInfo' =
          IF destroyInfo.calls = 0
          THEN [calls |-> 1, submits |-> Len(submittedLog),
                deliveries |-> Len(deliveredLog) + 1, refreshes |-> Len(refreshLog) + 1,
                scheduled |-> FALSE, inCallback |-> TRUE]
          ELSE [destroyInfo EXCEPT !.calls = @ + 1]
    /\ refreshLog' = Append(refreshLog, Len(submittedLog))
    /\ UNCHANGED <<shouldAccumulateDeltas, now, nextEventId, submittedLog, collector,
                   pipelineVars, detectorVars, schedulerVars, observedCalls>>

NextReentrant ==
    \/ Submit
    \/ Destroy
    \/ AnimationFrame
    \/ FrameCallbackBuffers
    \/ FrameCallbackDestroys

SpecReentrant == Init /\ [][NextReentrant]_vars

\* the host runs every animation-frame callback requested and not cancelled
RunFrame == AnimationFrame \/ FrameCallbackBuffers \/ FrameCallbackDestroys

FairSpecReentrant == SpecReentrant /\ WF_vars(RunFrame)

(***************************************************************************)
(* SpecMetrics: one MetricsCollector and the callers of its counters       *)
(***************************************************************************)
RecordRawEvent ==
    /\ collector.metrics.rawEventCount < MaxRawEvents
    /\ collector' = recordRawEvent(collector)
    /\ UNCHANGED <<bufferFields, rafQueue, nextRafId, now, nextEventId, bufferLogs, pipelineVars, detectorVars, schedulerVars, observedCalls>>

RecordFlushedEvent ==
    /\ collector.metrics.flushedEventCount < MaxFlushedEvents
    /\ collector' = recordFlushedEvent(collector)
    /\ UNCHANGED <<bufferFields, rafQueue, nextRafId, now, nextEventId, bufferLogs, pipelineVars, detectorVars, schedulerVars, observedCalls>>

Reset ==
    /\ collector' = reset(collector, now)
    /\ UNCHANGED <<bufferFields, rafQueue, nextRafId, now, nextEventId, bufferLogs, pipelineVars, detectorVars, schedulerVars, observedCalls>>

NextMetrics ==
    \/ RecordRawEvent
    \/ RecordFlushedEvent
    \/ Reset

SpecMetrics == Init /\ [][NextMetrics]_vars

(***************************************************************************)
(* SpecPipeline: the InputSanitizer effect and its host                    *)
(***************************************************************************)
\* shouldBuffer(event): records the raw event and answers true.  (The detector
\* it feeds on pointer events writes only pollingRate and detectedHz.)
shouldBuffer_noCount(c) == c

shouldBuffer(c) == recordRawEvent(c)

\* handleFlush(event, deltas) up to its await: the start time is taken and the
\* call is suspended in the scheduler's yield
handleFlush(event, deltas) ==
    pendingYields' = Append(pendingYields,
        [event |-> event, deltas |-> deltas, startTime |-> now, started |-> teardowns])

\* the rest of handleFlush, run when the yield resumes: the work callback
\* (recordFlushedEvent, updateFPS), then recordProcessingTime
resumeFlush(c, y) ==
    recordProcessingTime(updateFPS(recordFlushedEvent(c), now),
                         (now - y.startTime) * TicksPerMs)

\* the host dispatches an event on window.  With a listener of the
\* interceptor on its type, the first one runs: shouldBuffer, then
\* stopImmediatePropagation (no other listener sees the event), then
\* handleEvent -> bufferRef.current.buffer(event).  Without one the event
\* reaches the application's listeners.
windowEvent(shapes) ==
    /\ \E shape \in shapes :
          LET event == NewEvent(shape, nextEventId) IN
          IF \E l \in windowListeners : l.type = event.type
          THEN /\ collector' = shouldBuffer(collector)
               /\ buffer(event)
               /\ submittedLog' = Append(submittedLog, event)
               /\ UNCHANGED appReceived
          ELSE /\ appReceived' = Append(appReceived, event)
               /\ UNCHANGED <<collector, isActive, latestEvent, accumulatedDeltas, rafId,
                              rafQueue, nextRafId, submittedLog>>
    /\ nextEventId' = nextEventId + 1
    /\ UNCHANGED <<shouldAccumulateDeltas, now, deliveredLog, refreshLog, destroyInfo,
                   mounted, teardowns, activeListeners, pendingYields, metricsIntervalRef,
                   windowListeners, nextListenerId, intervalTimers, nextTimerId,
                   completedFlushes, detectorVars, schedulerVars, observedCalls>>

WindowEvent ==
    /\ nextEventId <= MaxWindowEvents
    /\ windowEvent(PipelineShapes)

\* the host runs the buffer's animation-frame callback; the flush callback is
\* handleFlush
PipelineFrame ==
    /\ \E id \in rafQueue : rafQueue' = rafQueue \ {id}
    /\ flush
    /\ IF latestEvent # NullEvent
       THEN handleFlush(latestEvent, flushDeltas(latestEvent, accumulatedDeltas))
       ELSE UNCHANGED pendingYields
    /\ refreshLog' = Append(refreshLog, Len(submittedLog))
    /\ UNCHANGED <<isActive, shouldAccumulateDeltas, nextRafId, now, nextEventId,
                   submittedLog, destroyInfo, collector,
                   mounted, teardowns, activeListeners, metricsIntervalRef,
                   windowListeners, nextListenerId, intervalTimers, nextTimerId,
                   appReceived, completedFlushes, detectorVars, schedulerVars, observedCalls>>

\* the scheduler resumes the oldest suspended handleFlush, which runs to its
\* end on metricsRef.current
YieldResume ==
    /\ pendingYields # <<>>
    /\ LET y == Head(pendingYields) IN
          /\ collector' = resumeFlush(collector, y)
          /\ completedFlushes' = Append(completedFlushes,
                 [event |-> y.event, deltas |-> y.deltas,
                  stale |-> y.started < teardowns,
                  recorded |-> resumeFlush(collector, y) # collector])
    /\ pendingYields' = Tail(pendingYields)
    /\ UNCHANGED <<bufferFields, rafQueue, nextRafId, now, nextEventId, bufferLogs,
                   mounted, teardowns, activeListeners, metricsIntervalRef,
                   windowListeners, nextListenerId, intervalTimers, nextTimerId,
                   appReceived, detectorVars, schedulerVars, observedCalls>>

\* the effect's cleanup: interceptor.detach(), buffer.destroy(), clearInterval
cleanup_keepTimer ==
    /\ detach
    /\ destroy
    /\ UNCHANGED intervalTimers
    /\ teardowns' = teardowns + 1

cleanup ==
    /\ detach
    /\ destroy
    /\ intervalTimers' = intervalTimers \ {metricsIntervalRef}
    /\ teardowns' = teardowns + 1

\* the component unmounts: the cleanup runs
Unmount ==
    /\ mounted
    /\ cleanup
    /\ mounted' = FALSE
    /\ destroyInfo' = noteDestroy
    /\ UNCHANGED <<shouldAccumulateDeltas, now, nextEventId, submittedLog, deliveredLog,
                   refreshLog, collector, pendingYields, metricsIntervalRef, nextTimerId,
                   appReceived, completedFlushes, detectorVars, schedulerVars, observedCalls>>

\* a dependency of the effect changed: the cleanup runs, then the effect body
\* with the new props builds a new collector, buffer and interceptor and
\* starts the reporting timer when onMetrics or debug is given
EffectRerun ==
    /\ mounted
    /\ teardowns < MaxReruns
    /\ teardowns' = teardowns + 1
    /\ collector' = NewCollector(now)
    /\ isActive' = TRUE
    /\ latestEvent' = NullEvent
    /\ accumulatedDeltas' = ZeroDeltas
    /\ rafId' = NoRaf
    /\ rafQueue' = rafQueue \ {rafId}
    /\ submittedLog' = <<>>
    /\ deliveredLog' = <<>>
    /\ refreshLog' = <<>>
    /\ destroyInfo' = NotDestroyed
    /\ \E props \in PropsChoices :
          /\ shouldAccumulateDeltas' = props.accumulateDeltas
          /\ windowListeners' =
                (windowListeners \ activeListeners)
                    \cup installed(props.eventTypes, nextListenerId)
          /\ activeListeners' = attach({}, props.eventTypes, nextListenerId)
          /\ nextListenerId' = nextListenerId + Len(props.eventTypes)
          /\ IF props.reporting
             THEN /\ intervalTimers' =
                        (intervalTimers \ {metricsIntervalRef}) \cup {nextTimerId}
                  /\ metricsIntervalRef' = nextTimerId
                  /\ nextTimerId' = nextTimerId + 1
                  /\ timerOwner' =
                        [timer \in DOMAIN timerOwner \cup {nextTimerId} |->
                            IF timer = nextTimerId THEN teardowns + 1 ELSE timerOwner[timer]]
             ELSE /\ intervalTimers' = intervalTimers \ {metricsIntervalRef}
                  /\ UNCHANGED <<metricsIntervalRef, nextTimerId, timerOwner>>
    /\ UNCHANGED <<nextRafId, now, nextEventId, mounted, pendingYields, appReceived,
                   completedFlushes, detectorVars, schedulerVars, interceptorLogs,
                   collectorLogs, onMetricsLog>>

\* performance.now() advances
Tick ==
    /\ now < MaxClock
    /\ now' = now + 1
    /\ UNCHANGED <<bufferFields, rafQueue, nextRafId, nextEventId, bufferLogs, collector,
                   pipelineVars, detectorVars, schedulerVars, observedCalls>>

NextPipeline ==
    \/ WindowEvent
    \/ PipelineFrame
    \/ YieldResume
    \/ Unmount
    \/ EffectRerun
    \/ Tick

SpecPipeline == Init /\ [][NextPipeline]_vars

(***************************************************************************)
(* SpecSteady: the pipeline of an InputSanitizer that stays mounted, under *)
(* a stream of wheel events                                                *)
(***************************************************************************)
SteadyShapes == { shape \in PipelineShapes : shape.type = "wheel" }

\* the host dispatches a wheel event on window
SteadyEvent ==
    /\ nextEventId <= MaxSteadyEvents
    /\ windowEvent(SteadyShapes)

NextSteady ==
    \/ SteadyEvent
    \/ PipelineFrame
    \/ YieldResume
    \/ Tick

SpecSteady == Init /\ [][NextSteady]_vars

(***************************************************************************)
(* SpecReporting: the InputSanitizer effect and its reporting timer        *)
(***************************************************************************)
\* the timer callback: metrics = metricsRef.current?.getMetrics(), and then
\* onMetrics?.(metrics); the calls of onMetrics it makes
reportMetrics(c, t) == <<getMetricsObject(c, t)>>

\* the host fires a running interval timer
MetricsTimerFires ==
    /\ Len(onMetricsLog) < MaxTimerFirings
    /\ \E timer \in intervalTimers :
          onMetricsLog' = Append(onMetricsLog,
              [timer |-> timer, owner |-> timerOwner[timer], cleanups |-> teardowns,
               mounted |-> mounted, metrics |-> collector.metrics, time |-> now,
               calls |-> reportMetrics(collector, now)])
    /\ UNCHANGED <<bufferFields, rafQueue, nextRafId, now, nextEventId, bufferLogs, collector,
                   pipelineVars, detectorVars, schedulerVars, interceptorLogs, collectorLogs,
                   timerOwner>>

NextReporting ==
    \/ MetricsTimerFires
    \/ WindowEvent
    \/ Unmount
    \/ EffectRerun

SpecReporting == Init /\ [][NextReporting]_vars

(***************************************************************************)
(* SpecClassify: the listeners of the InputSanitizer with the detector     *)
(* behind shouldBuffer, under a device that reports at a steady rate       *)
(***************************************************************************)
\* event instanceof PointerEvent: of the four event types only pointermove
\* events are PointerEvents
isPointerEvent(event) == event.type = "pointermove"

\* the detector after shouldBuffer(event) at time t
shouldBufferDetector_anyEvent(d, event, t) == detectPollingRate(d, t)

shouldBufferDetector(d, event, t) ==
    IF isPointerEvent(event) THEN detectPollingRate(d, t) ELSE d

\* the collector after shouldBuffer(event) at time t: recordRawEvent(), and
\* for a PointerEvent updatePollingRate(pollingRate, detectedHz)
shouldBufferCollector(c, d, event, t) ==
    IF isPointerEvent(event)
    THEN updatePollingRate(recordRawEvent(c),
                           detectPollingRateResult(shouldBufferDetector(d, event, t)),
                           getDetectedHz(shouldBufferDetector(d, event, t)))
    ELSE recordRawEvent(c)

\* one event of each type
ClassifyShapes ==
    { shape \in EventShapes : shape.type = "wheel" => shape.deltaX = Num(1) }

\* the events that are not PointerEvents among those the listeners received
OtherEvents == { i \in DOMAIN submittedLog : ~isPointerEvent(submittedLog[i]) }

\* the host dispatches an event on window an interval after the one before.
\* With a listener of the interceptor on its type the listener runs:
\* shouldBuffer, stopImmediatePropagation, handleEvent -> buffer(event).
\* Without one the event reaches the application's listeners.
ClassifyEvent ==
    /\ nextEventId <= MaxClassifyEvents
    /\ \E shape \in ClassifyShapes, interval \in {1, 64} :
          LET event == NewEvent(shape, nextEventId) IN
          /\ pollInterval \in {NoInterval, interval}
          /\ isPointerEvent(event) \/ Cardinality(OtherEvents) < MaxOtherEvents
          /\ perfNow' = perfNow + interval
          /\ pollInterval' = interval
          /\ IF \E l \in windowListeners : l.type = event.type
             THEN /\ detector' = shouldBufferDetector(detector, event, perfNow')
                  /\ collector' = shouldBufferCollector(collector, detector, event, perfNow')
                  /\ callTimes' = IF detector' # detector \/ isPointerEvent(event)
                                  THEN Append(callTimes, perfNow') ELSE callTimes
                  /\ lastResult' = IF detector' # detector \/ isPointerEvent(event)
                                   THEN detectPollingRateResult(detector') ELSE lastResult
                  /\ buffer(event)
                  /\ submittedLog' = Append(submittedLog, event)
                  /\ UNCHANGED appReceived
             ELSE /\ appReceived' = Append(appReceived, event)
                  /\ UNCHANGED <<collector, detector, callTimes, lastResult, isActive,
                                 latestEvent, accumulatedDeltas, rafId, rafQueue, nextRafId,
                                 submittedLog>>
    /\ nextEventId' = nextEventId + 1
    /\ UNCHANGED <<shouldAccumulateDeltas, now, deliveredLog, refreshLog, destroyInfo,
                   mounted, teardowns, activeListeners, pendingYields, metricsIntervalRef,
                   windowListeners, nextListenerId, intervalTimers, nextTimerId,
                   completedFlushes, rateChanges, resetFound, schedulerVars, observedCalls>>

NextClassify == ClassifyEvent

SpecClassify == Init /\ [][NextClassify]_vars

(***************************************************************************)
(* SpecDetector: one PollingRateDetector and the pointer device            *)
(***************************************************************************)
\* the report intervals of the device, in eighths of a millisecond: none (the
\* clock did not advance), 0.125 ms, 1 ms, 8 ms
ReportIntervals == {0, 1, 8, 64}

\* the device reports a pointer event an interval after the previous one and
\* the listener calls detectPollingRate(event); the interval is the device's
\* current one, or a new one
DetectPollingRate ==
    /\ Len(callTimes) < MaxDetectorCalls
    /\ \E interval \in ReportIntervals :
          /\ \/ pollInterval \in {NoInterval, interval}
             \/ rateChanges < MaxRateChanges
          /\ perfNow' = perfNow + interval
          /\ pollInterval' = interval
          /\ rateChanges' =
                IF pollInterval \in {NoInterval, interval} THEN rateChanges
                ELSE rateChanges + 1
    /\ detector' = detectPollingRate(detector, perfNow')
    /\ lastResult' = detectPollingRateResult(detector')
    /\ callTimes' = Append(callTimes, perfNow')
    /\ UNCHANGED <<resetFound, bufferFields, rafQueue, nextRafId, now, nextEventId,
                   bufferLogs, collector, pipelineVars, schedulerVars, observedCalls>>

\* a caller calls reset(); times are counted from here on
DetectorReset ==
    /\ detector' = detectorReset(detector)
    /\ resetFound' =
          [found |-> IF detector.cachedPollingRate # NoRate THEN detector.cachedPollingRate
                     ELSE IF detector.eventTimestamps # <<>> THEN "partial" ELSE "empty",
           zeroHz |-> detector.cachedPollingRate # NoRate /\ getDetectedHz(detector) = 0]
    /\ perfNow' = 0
    /\ pollInterval' = NoInterval
    /\ rateChanges' = 0
    /\ callTimes' = <<>>
    /\ lastResult' = "none"
    /\ UNCHANGED <<bufferFields, rafQueue, nextRafId, now, nextEventId, bufferLogs,
                   collector, pipelineVars, schedulerVars, observedCalls>>

NextDetector ==
    \/ DetectPollingRate
    \/ DetectorReset

SpecDetector == Init /\ [][NextDetector]_vars

(***************************************************************************)
(* SpecScheduler: one YieldScheduler, its callers and the host             *)
(***************************************************************************)
\* a caller calls processWithYield(callback, priority); the activation runs to
\* its first suspension
ProcessWithYield ==
    /\ Len(yieldCalls) < MaxYieldCalls
    /\ \E priority \in Priorities, native \in NativeOutcomes :
          /\ yieldCalls' = Append(yieldCalls,
                 processWithYield(NewYieldCall(priority, native, hostTurn)))
          /\ nativeLog' =
                IF isSchedulerSupported(native)
                THEN Append(nativeLog, [call |-> Len(yieldCalls) + 1, priority |-> priority,
                                        arguments |-> yieldArguments(priority)])
                ELSE nativeLog
    /\ UNCHANGED <<hostTurn, bufferFields, rafQueue, nextRafId, now, nextEventId,
                   bufferLogs, collector, pipelineVars, detectorVars, observedCalls>>

\* the host resolves a promise scheduler.yield() returned: the activation
\* resumes and runs to its end
NativeYieldResolves ==
    /\ \E i \in DOMAIN yieldCalls :
          /\ yieldCalls[i].state = "native"
          /\ yieldCalls' = [yieldCalls EXCEPT ![i] = finishYield(@, hostTurn + 1)]
    /\ hostTurn' = hostTurn + 1
    /\ UNCHANGED <<nativeLog, bufferFields, rafQueue, nextRafId, now, nextEventId,
                   bufferLogs, collector, pipelineVars, detectorVars, observedCalls>>

\* a promise scheduler.yield() returned rejects: the await throws inside the
\* try block
NativeYieldRejects ==
    /\ \E i \in DOMAIN yieldCalls :
          /\ yieldCalls[i].state = "nativeRejecting"
          /\ yieldCalls' = [yieldCalls EXCEPT ![i] = catchYieldError(@)]
    /\ hostTurn' = hostTurn + 1
    /\ UNCHANGED <<nativeLog, bufferFields, rafQueue, nextRafId, now, nextEventId,
                   bufferLogs, collector, pipelineVars, detectorVars, observedCalls>>

\* the host runs the zero-delay timer of fallbackYield: the activation resumes
\* and runs to its end
YieldTimerFires ==
    /\ \E i \in DOMAIN yieldCalls :
          /\ yieldCalls[i].state = "timer"
          /\ yieldCalls' = [yieldCalls EXCEPT ![i] = finishYield(@, hostTurn + 1)]
    /\ hostTurn' = hostTurn + 1
    /\ UNCHANGED <<nativeLog, bufferFields, rafQueue, nextRafId, now, nextEventId,
                   bufferLogs, collector, pipelineVars, detectorVars, observedCalls>>

NextScheduler ==
    \/ ProcessWithYield
    \/ NativeYieldResolves
    \/ NativeYieldRejects
    \/ YieldTimerFires

SpecScheduler == Init /\ [][NextScheduler]_vars

\* the host's event loop runs every promise reaction and timer callback queued
FairSpecScheduler ==
    /\ SpecScheduler
    /\ WF_vars(NativeYieldResolves)
    /\ WF_vars(NativeYieldRejects)
    /\ WF_vars(YieldTimerFires)

(***************************************************************************)
(* SpecInterceptor: one EventInterceptor, the caller of its public methods *)
(* and the window that dispatches events to its listeners                  *)
(***************************************************************************)
\* the lists a caller passes to updateEventTypes
TypeLists == { <<"wheel">>, <<"scroll">>, <<"wheel", "scroll">>, <<"wheel", "wheel">> }

\* a caller calls updateEventTypes(eventTypes)
UpdateEventTypes ==
    /\ Len(interceptorCalls) < MaxInterceptorCalls
    /\ \E eventTypes \in TypeLists :
          /\ updateEventTypes(eventTypes)
          /\ interceptorCalls' = Append(interceptorCalls,
                 [op |-> "updateEventTypes", eventTypes |-> eventTypes,
                  runs |-> Len(listenerLog), before |-> windowListeners])
    /\ UNCHANGED <<bufferFields, rafQueue, nextRafId, now, nextEventId, bufferLogs, collector,
                   mounted, teardowns, pendingYields, metricsIntervalRef, intervalTimers,
                   nextTimerId, appReceived, completedFlushes, detectorVars, schedulerVars,
                   listenerLog, collectorLogs, reportLogs>>

\* a caller calls detach()
Detach ==
    /\ Len(interceptorCalls) < MaxInterceptorCalls
    /\ detach
    /\ interceptorCalls' = Append(interceptorCalls,
           [op |-> "detach", eventTypes |-> <<>>,
            runs |-> Len(listenerLog), before |-> windowListeners])
    /\ UNCHANGED <<bufferFields, rafQueue, nextRafId, now, nextEventId, bufferLogs, collector,
                   mounted, teardowns, pendingYields, metricsIntervalRef, intervalTimers,
                   nextTimerId, appReceived, completedFlushes, detectorVars, schedulerVars,
                   listenerLog, collectorLogs, reportLogs>>

\* the host dispatches a wheel or scroll event on window; the predicate the
\* interceptor was given answers each listener either way
DispatchEvent ==
    /\ nextEventId <= MaxDispatches
    /\ \E type \in {"wheel", "scroll"} :
          LET e == [id |-> nextEventId, type |-> type]
              ls == { l \in windowListeners : l.type = type }
          IN  \E answers \in [{ l.id : l \in ls } -> BOOLEAN] :
                 listenerLog' = listenerLog \o dispatchEvent(ls, e, answers)
    /\ nextEventId' = nextEventId + 1
    /\ UNCHANGED <<bufferFields, rafQueue, nextRafId, now, bufferLogs, collector,
                   pipelineVars, detectorVars, schedulerVars,
                   interceptorCalls, collectorLogs, reportLogs>>

NextInterceptor ==
    \/ UpdateEventTypes
    \/ Detach
    \/ DispatchEvent

SpecInterceptor == Init /\ [][NextInterceptor]_vars

(***************************************************************************)
(* SpecCollector: one MetricsCollector, a caller of all its methods and    *)
(* the consumer of the objects getMetrics() returned                       *)
(***************************************************************************)
\* the objects returned so far after a call that left the collector with the
\* metrics given: one that is the collector's own metrics object shows them,
\* unless the call replaced that object
seenThrough(metrics, replaced) ==
    [i \in DOMAIN snapshots |->
        IF snapshots[i].shared
        THEN [snapshots[i] EXCEPT !.fields = (IF replaced THEN @ ELSE metrics),
                                  !.shared = ~replaced]
        ELSE snapshots[i]]

\* a caller calls the method named, which leaves the collector as after
collectorCall(name, after) ==
    /\ collectorCalls.count < MaxCollectorCalls
    /\ collector' = after
    /\ collectorCalls' = [count |-> collectorCalls.count + 1, last |-> name]
    /\ UNCHANGED <<bufferFields, rafQueue, nextRafId, now, nextEventId, bufferLogs,
                   pipelineVars, detectorVars, schedulerVars, interceptorLogs, reportLogs>>

CallRecordRawEvent ==
    /\ collectorCall("recordRawEvent", recordRawEvent(collector))
    /\ snapshots' = seenThrough(collector'.metrics, FALSE)
    /\ UNCHANGED recordedTimes

CallRecordFlushedEvent ==
    /\ collectorCall("recordFlushedEvent", recordFlushedEvent(collector))
    /\ snapshots' = seenThrough(collector'.metrics, FALSE)
    /\ UNCHANGED recordedTimes

\* the processing times a caller records: 1.5 ms, 2.5 ms
ProcessingTimes == {12, 20}

CallRecordProcessingTime ==
    /\ \E timeMs \in ProcessingTimes :
          /\ collectorCall("recordProcessingTime", recordProcessingTime(collector, timeMs))
          /\ recordedTimes' = Append(recordedTimes, timeMs)
    /\ snapshots' = seenThrough(collector'.metrics, FALSE)

CallUpdateFPS ==
    /\ collectorCall("updateFPS", updateFPS(collector, now))
    /\ snapshots' = seenThrough(collector'.metrics, FALSE)
    /\ UNCHANGED recordedTimes

CallUpdatePollingRate ==
    /\ collectorCall("updatePollingRate", updatePollingRate(collector, "high", 8000))
    /\ snapshots' = seenThrough(collector'.metrics, FALSE)
    /\ UNCHANGED recordedTimes

\* getMetrics() assigns nothing; the object returned goes to the consumer
CallGetMetrics ==
    /\ collectorCall("getMetrics", collector)
    /\ snapshots' = Append(snapshots,
           [shared |-> getMetricsObject(collector, now).shared,
            fields |-> getMetricsObject(collector, now).fields,
            returned |-> getMetricsObject(collector, now).fields,
            written |-> FALSE])
    /\ UNCHANGED recordedTimes

CallReset ==
    /\ collectorCall("reset", reset(collector, now))
    /\ snapshots' = seenThrough(collector'.metrics, TRUE)
    /\ recordedTimes' = <<>>

\* the value the consumer writes into an object it was given
ConsumerMark == -1

\* the consumer assigns to rawEventCount of an object getMetrics() returned
SnapshotWritten ==
    /\ \E i \in DOMAIN snapshots :
          /\ ~snapshots[i].written
          /\ collector' =
                IF snapshots[i].shared
                THEN [collector EXCEPT !.metrics.rawEventCount = ConsumerMark]
                ELSE collector
          /\ snapshots' =
                [j \in DOMAIN snapshots |->
                    IF j = i \/ (snapshots[i].shared /\ snapshots[j].shared)
                    THEN [snapshots[j] EXCEPT !.fields.rawEventCount = ConsumerMark,
                                              !.written = (j = i \/ @)]
                    ELSE snapshots[j]]
    /\ UNCHANGED <<bufferFields, rafQueue, nextRafId, now, nextEventId, bufferLogs,
                   pipelineVars, detectorVars, schedulerVars, interceptorLogs, reportLogs,
                   recordedTimes, collectorCalls>>

NextCollector ==
    \/ CallRecordRawEvent
    \/ CallRecordFlushedEvent
    \/ CallRecordProcessingTime
    \/ CallUpdateFPS
    \/ CallUpdatePollingRate
    \/ CallGetMetrics
    \/ CallReset
    \/ SnapshotWritten
    \/ Tick

SpecCollector == Init /\ [][NextCollector]_vars

(***************************************************************************)
(* SpecProcessing: one MetricsCollector through a long run of flushes,     *)
(* each recording its processing time                                      *)
(***************************************************************************)
\* a caller calls recordProcessingTime(timeMs); the first calls record any
\* of the times, the later ones the time of the call before (a steady load)
RecordProcessingTime ==
    /\ Len(recordedTimes) < MaxRecordedTimes
    /\ \E timeMs \in ProcessingTimes :
          /\ IF Len(recordedTimes) < MaxVariedTimes THEN TRUE
             ELSE timeMs = recordedTimes[Len(recordedTimes)]
          /\ collector' = recordProcessingTime(collector, timeMs)
          /\ recordedTimes' = Append(recordedTimes, timeMs)
    /\ collectorCalls' = [count |-> collectorCalls.count + 1, last |-> "recordProcessingTime"]
    /\ UNCHANGED <<bufferFields, rafQueue, nextRafId, now, nextEventId, bufferLogs,
                   pipelineVars, detectorVars, schedulerVars, interceptorLogs, reportLogs,
                   snapshots>>

NextProcessing == RecordProcessingTime

SpecProcessing == Init /\ [][NextProcessing]_vars

(***************************************************************************)
(* Properties of the SamplingBuffer (Spec)                                 *)
(***************************************************************************)
\* the k-th refresh interval: the buffer() calls made after refresh callback
\* k-1 and before refresh callback k
IntervalFrom(k) == IF k = 1 THEN 0 ELSE refreshLog[k - 1]
IntervalEvents(k) == SubSeq(submittedLog, IntervalFrom(k) + 1, refreshLog[k])
DeliveriesAt(k) == { i \in DOMAIN deliveredLog : deliveredLog[i].refresh = k }

AllWheel(events) == \A i \in DOMAIN events : events[i].type = "wheel"

RECURSIVE SumX(_)
SumX(events) == IF events = <<>> THEN 0 ELSE Head(events).deltaX.n + SumX(Tail(events))
RECURSIVE SumY(_)
SumY(events) == IF events = <<>> THEN 0 ELSE Head(events).deltaY.n + SumY(Tail(events))
RECURSIVE SumZ(_)
SumZ(events) == IF events = <<>> THEN 0 ELSE Head(events).deltaZ.n + SumZ(Tail(events))

\* C1: every refresh callback that follows N >= 1 buffer() calls invokes the
\* flush callback exactly once, with the last event submitted.
C1_OneDeliveryOfLastEvent ==
    \A k \in DOMAIN refreshLog :
        refreshLog[k] > IntervalFrom(k) =>
            /\ Cardinality(DeliveriesAt(k)) = 1
            /\ \A i \in DeliveriesAt(k) : deliveredLog[i].event = submittedLog[refreshLog[k]]

\* some refresh callback followed two or more submissions and delivered
C1_Witness ==
    \E k \in DOMAIN refreshLog :
        /\ refreshLog[k] >= IntervalFrom(k) + 2
        /\ DeliveriesAt(k) # {}

\* C2: when an interval's submissions are all wheel events, the delivery
\* carries the component-wise sum of their deltas if accumulation is enabled
\* and undefined if it is disabled.
C2_WheelDeltasSummed ==
    \A i \in DOMAIN deliveredLog :
        LET events == IntervalEvents(deliveredLog[i].refresh) IN
        AllWheel(events) =>
            deliveredLog[i].deltas =
                IF shouldAccumulateDeltas
                THEN [deltaX |-> Num(SumX(events)), deltaY |-> Num(SumY(events)),
                      deltaZ |-> Num(SumZ(events))]
                ELSE Undefined

\* a delivery that coalesced two wheel events with different non-zero deltas
C2_Witness ==
    /\ shouldAccumulateDeltas
    /\ \E i \in DOMAIN deliveredLog :
          LET events == IntervalEvents(deliveredLog[i].refresh) IN
          /\ Len(events) >= 2
          /\ AllWheel(events)
          /\ events[1].deltaX # events[2].deltaX
          /\ deliveredLog[i].deltas.deltaY = Num(2)

\* C3: after destroy() the flush callback is never invoked again, the flush
\* scheduled before destroy() does not run, and no buffer() call schedules one.
C3_NoDeliveryAfterDestroy ==
    destroyInfo.calls > 0 =>
        /\ Len(deliveredLog) = destroyInfo.deliveries
        /\ Len(refreshLog) = destroyInfo.refreshes
        /\ rafQueue = {}

\* destroy() found a scheduled flush, and buffer() was called afterwards
C3_Witness ==
    /\ destroyInfo.calls > 0
    /\ destroyInfo.scheduled
    /\ Len(submittedLog) > destroyInfo.submits

\* the deltas of every wheel or scroll event submitted so far
RECURSIVE SubmittedTotal(_)
SubmittedTotal(events) ==
    IF events = <<>> THEN ZeroDeltas
    ELSE IF isScrollEvent(Head(events))
         THEN addDeltas(SubmittedTotal(Tail(events)), Head(events))
         ELSE SubmittedTotal(Tail(events))

\* the deltas handed to the flush callback so far
RECURSIVE DeliveredTotal(_)
DeliveredTotal(deliveries) ==
    IF deliveries = <<>> THEN ZeroDeltas
    ELSE IF Head(deliveries).deltas # Undefined
         THEN addDeltas(DeliveredTotal(Tail(deliveries)), Head(deliveries).deltas)
         ELSE DeliveredTotal(Tail(deliveries))

\* C8: with accumulation enabled no scroll motion is lost: whenever no event is
\* pending on the active buffer, the deltas delivered so far add up to the
\* deltas of all wheel and scroll events submitted so far.
C8_NoScrollMotionLost ==
    (isActive /\ shouldAccumulateDeltas /\ latestEvent = NullEvent) =>
        DeliveredTotal(deliveredLog) = SubmittedTotal(submittedLog)

\* C9: right after a flush the accumulated deltas are zero, and a wheel event
\* that is alone in a later interval is delivered with exactly its own deltas.
C9_DeltasResetAfterFlush ==
    /\ (isActive /\ refreshLog # <<>> /\ refreshLog[Len(refreshLog)] = Len(submittedLog))
          => accumulatedDeltas = ZeroDeltas
    /\ \A i \in DOMAIN deliveredLog :
          LET k == deliveredLog[i].refresh
              events == IntervalEvents(k) IN
          (shouldAccumulateDeltas /\ k >= 2 /\ Len(events) = 1 /\ AllWheel(events)) =>
              deliveredLog[i].deltas =
                  [deltaX |-> events[1].deltaX, deltaY |-> events[1].deltaY,
                   deltaZ |-> events[1].deltaZ]

\* a lone wheel event delivered after an earlier delivery of non-zero deltas
C9_Witness ==
    \E i, j \in DOMAIN deliveredLog :
        /\ i < j
        /\ deliveredLog[i].deltas # Undefined
        /\ deliveredLog[i].deltas # ZeroDeltas
        /\ Len(IntervalEvents(deliveredLog[j].refresh)) = 1
        /\ deliveredLog[j].event.type = "wheel"
        /\ deliveredLog[j].deltas # Undefined
        /\ deliveredLog[j].deltas # ZeroDeltas

\* C10: a delivery carries deltas exactly when accumulation is enabled and the
\* delivered event is a wheel or scroll event.
C10_DeltasIffScrollType ==
    \A i \in DOMAIN deliveredLog :
        (deliveredLog[i].deltas # Undefined)
            <=> (shouldAccumulateDeltas /\ deliveredLog[i].event.type \in {"wheel", "scroll"})

\* with accumulation enabled, a pointer-move delivery that coalesced a wheel
\* event, and a wheel delivery
C10_Witness ==
    /\ shouldAccumulateDeltas
    /\ \E i, j \in DOMAIN deliveredLog :
          /\ deliveredLog[i].event.type = "pointermove"
          /\ deliveredLog[i].deltas = Undefined
          /\ \E m \in DOMAIN IntervalEvents(deliveredLog[i].refresh) :
                IntervalEvents(deliveredLog[i].refresh)[m].type = "wheel"
          /\ deliveredLog[j].event.type = "wheel"
          /\ deliveredLog[j].deltas # Undefined

\* C11: destroy() is idempotent and what follows it is a no-op: once destroy()
\* has been called, neither a further destroy() nor a buffer() call changes
\* the pending event, the accumulated deltas, the scheduled-flush handle, the
\* active flag or the host's frame queue.
C11_DestroyedBufferIsInert ==
    [][destroyInfo.calls > 0 =>
          UNCHANGED <<isActive, latestEvent, accumulatedDeltas, rafId, rafQueue>>]_vars

\* destroy() was called twice and buffer() was called after the first call
C11_Witness ==
    /\ destroyInfo.calls >= 2
    /\ Len(submittedLog) > destroyInfo.submits

\* the place of a delivered event in the sequence of submissions
SubmissionIndex(event) == CHOOSE j \in DOMAIN submittedLog : submittedLog[j] = event

\* C12: the delivered events are a subsequence of the submitted events, in the
\* same order, and no refresh callback makes more than one delivery.
C12_DeliveriesInSubmissionOrder ==
    /\ \A i \in DOMAIN deliveredLog :
          \E j \in DOMAIN submittedLog : submittedLog[j] = deliveredLog[i].event
    /\ \A i, j \in DOMAIN deliveredLog :
          i < j => SubmissionIndex(deliveredLog[i].event) < SubmissionIndex(deliveredLog[j].event)
    /\ \A k \in DOMAIN refreshLog : Cardinality(DeliveriesAt(k)) <= 1

\* two deliveries, the first of which coalesced two different events, and a
\* submission that was never delivered
C12_Witness ==
    /\ Len(deliveredLog) >= 2
    /\ Len(submittedLog) > Len(deliveredLog)
    /\ LET events == IntervalEvents(deliveredLog[1].refresh) IN
          Len(events) >= 2 /\ events[1].type # events[2].type

(***************************************************************************)
(* Properties of the InputSanitizer pipeline (SpecPipeline)                *)
(***************************************************************************)
\* C4: a handleFlush call that was suspended in the yield when the effect's
\* cleanup ran completes as a no-op: it records no flushed event, no frame
\* and no processing time.
C4_StaleContinuationIsNoOp ==
    \A i \in DOMAIN completedFlushes :
        completedFlushes[i].stale => ~completedFlushes[i].recorded

\* C5: rawEventCount >= flushedEventCount in every reachable state of the
\* collector, also across a re-run of the effect while a flush is in flight.
C5_RawAtLeastFlushed ==
    collector.metrics.rawEventCount >= collector.metrics.flushedEventCount

\* C7: every flush ends, after the yield, with the coalesced event delivered
\* to the application.
C7_FlushReachesConsumer ==
    \A i \in DOMAIN completedFlushes :
        \E j \in DOMAIN appReceived : appReceived[j] = completedFlushes[i].event

(***************************************************************************)
(* Properties of the MetricsCollector (SpecMetrics)                        *)
(***************************************************************************)
\* C6: reductionPercentage is round(100 * (raw - flushed) / raw) when raw > 0
\* (the nearest integer, a tie going up) and 0 when raw = 0.
C6_ReductionPercentageRounded ==
    LET raw == collector.metrics.rawEventCount
        flushed == collector.metrics.flushedEventCount
    IN  collector.metrics.reductionPercentage =
            IF raw = 0 THEN 0 ELSE (200 * (raw - flushed) + raw) \div (2 * raw)

(***************************************************************************)
(* Properties of the PollingRateDetector (SpecDetector)                    *)
(***************************************************************************)
\* the differences of the first ten call times since construction or reset
CallDeltas == [i \in 1..9 |-> callTimes[i + 1] - callTimes[i]]

\* how many of them are strictly below 1 ms
FastDeltas == Cardinality({ i \in 1..9 : CallDeltas[i] < TicksPerMs })

\* their sum, in eighths of a millisecond
CallSpan == SumRange(CallDeltas, 1, 9)

\* C13: each of the first 9 calls of detectPollingRate after construction or
\* reset() returns 'unknown', with getDetectedHz() at 0, and the 10th call
\* returns 'standard' or 'high'.
C13_UnknownUntilTenSamples ==
    /\ Len(callTimes) \in 1..9 =>
          lastResult = "unknown" /\ getDetectedHz(detector) = 0
    /\ Len(callTimes) = 10 => lastResult \in {"standard", "high"}

\* the 10th call after a reset() that followed a classification
C13_Witness ==
    /\ resetFound.found \in {"standard", "high"}
    /\ Len(callTimes) = 10
    /\ lastResult \in {"standard", "high"}

\* C14: the 10th call classifies 'high' exactly when at least 5 of the 9
\* timestamp differences are strictly below 1 ms, and 'standard' otherwise;
\* a spacing of 0.125 ms gives 'high', a spacing of 8 ms gives 'standard'.
C14_HighIffFiveFastDeltas ==
    Len(callTimes) = 10 =>
        /\ lastResult = (IF FastDeltas >= 5 THEN "high" ELSE "standard")
        /\ (\A i \in 1..9 : CallDeltas[i] = 1) => lastResult = "high"
        /\ (\A i \in 1..9 : CallDeltas[i] = 64) => lastResult = "standard"

\* a window with 4 differences of 0.125 ms and 5 of exactly 1 ms
C14_Witness ==
    /\ Len(callTimes) = 10
    /\ FastDeltas = 4
    /\ Cardinality({ i \in 1..9 : CallDeltas[i] = TicksPerMs }) = 5
    /\ lastResult = "standard"

\* C15: after detectPollingRate has returned 'standard' or 'high', a later
\* call before any reset() returns the same classification and leaves
\* getDetectedHz() and the sample window as they were.
C15_ClassificationCached ==
    [][(lastResult \in {"standard", "high"} /\ callTimes' # <<>>) =>
          /\ lastResult' = lastResult
          /\ getDetectedHz(detector') = getDetectedHz(detector)
          /\ detector'.eventTimestamps = detector.eventTimestamps]_vars

\* a call 8 ms after a 'high' classification of reports 0.125 ms apart
C15_Witness ==
    /\ Len(callTimes) = 11
    /\ \A i \in 1..9 : CallDeltas[i] = 1
    /\ callTimes[11] - callTimes[10] = 64
    /\ lastResult = "high"

\* C16: after reset() the window is empty, the cache is cleared and the Hz is
\* 0; the calls that follow return 'unknown' until there are 10 of them, and
\* the window holds the times of these calls only.
C16_ResetRestoresInitialState ==
    resetFound.found # "none" =>
        /\ callTimes = <<>> =>
              /\ detector.eventTimestamps = <<>>
              /\ detector.cachedPollingRate = NoRate
              /\ getDetectedHz(detector) = 0
        /\ Len(callTimes) \in 1..9 => lastResult = "unknown"
        /\ detector.eventTimestamps =
              SubSeq(callTimes, 1, IF Len(callTimes) < 10 THEN Len(callTimes) ELSE 10)

\* a 'standard' classification after the reset() of a detector that had
\* classified 'high'
C16_Witness ==
    /\ resetFound.found = "high"
    /\ Len(callTimes) >= 10
    /\ lastResult = "standard"

StepIndex(trace, step) ==
    IF \E k \in DOMAIN trace : trace[k] = step
    THEN CHOOSE k \in DOMAIN trace : trace[k] = step /\ \A j \in 1..(k - 1) : trace[j] # step
    ELSE 0

\* the native yield of the call was absent or failed
NativeFailed(call) == call.native \in {"absent", "throws", "rejects"}

\* the call went through the zero-delay timer, then ran the callback once,
\* then resolved
ResolvedThroughTimer(call) ==
    /\ call.state = "resolved"
    /\ call.workRuns = 1
    /\ 0 < StepIndex(call.trace, "setTimeout")
    /\ StepIndex(call.trace, "setTimeout") < StepIndex(call.trace, "callback")
    /\ StepIndex(call.trace, "callback") < StepIndex(call.trace, "resolve")

C19_WorkOnceAfterYield ==
    /\ [](\A i \in DOMAIN yieldCalls :
             /\ yieldCalls[i].workRuns <= 1
             /\ yieldCalls[i].workRuns = 1 => yieldCalls[i].workAt > yieldCalls[i].calledAt
             /\ StepIndex(yieldCalls[i].trace, "resolve") > 0 =>
                   /\ yieldCalls[i].workRuns = 1
                   /\ 0 < StepIndex(yieldCalls[i].trace, "callback")
                   /\ StepIndex(yieldCalls[i].trace, "callback")
                         < StepIndex(yieldCalls[i].trace, "resolve"))
    /\ \A i \in 1..MaxYieldCalls :
          [](i \in DOMAIN yieldCalls =>
                <>(/\ i \in DOMAIN yieldCalls
                   /\ yieldCalls[i].state = "resolved"
                   /\ yieldCalls[i].workRuns = 1))

\* a call through the native yield has resolved after the host ran another
\* call's job in between
C19_Witness ==
    \E i \in DOMAIN yieldCalls :
        /\ yieldCalls[i].native = "resolves"
        /\ yieldCalls[i].state = "resolved"
        /\ yieldCalls[i].workRuns = 1
        /\ yieldCalls[i].workAt >= yieldCalls[i].calledAt + 2

\* C20: every call of the native scheduler.yield carries the priority its
\* processWithYield call was given, so calls of different priorities differ
\* in their arguments.
C20_PriorityReachesYield ==
    /\ \A k \in DOMAIN nativeLog :
          \E a \in DOMAIN nativeLog[k].arguments :
              nativeLog[k].arguments[a] = nativeLog[k].priority
    /\ \A k, l \in DOMAIN nativeLog :
          nativeLog[k].priority # nativeLog[l].priority
              => nativeLog[k].arguments # nativeLog[l].arguments

(***************************************************************************)
(* Properties of the EventInterceptor (SpecInterceptor)                    *)
(***************************************************************************)
\* how often a listener run made the call named
CallCount(run, name) == Cardinality({ i \in DOMAIN run.calls : run.calls[i] = name })

\* C21: every run of a listener of the interceptor calls the shouldBuffer
\* predicate exactly once and first, calls stopImmediatePropagation on the
\* event exactly when the predicate answered true, and then forwards the
\* event to the handler exactly once, whatever the answer
C21_ListenerAsksStopsForwards ==
    \A k \in DOMAIN listenerLog :
        LET run == listenerLog[k] IN
        /\ CallCount(run, "shouldBuffer") = 1
        /\ run.calls[1] = "shouldBuffer"
        /\ CallCount(run, "stopImmediatePropagation") = (IF run.answer THEN 1 ELSE 0)
        /\ CallCount(run, "eventHandler") = 1
        /\ run.calls[Len(run.calls)] = "eventHandler"

\* one event passed on by a listener whose predicate answered false, another
\* suppressed by a listener whose predicate answered true
C21_Witness ==
    /\ \E k \in DOMAIN listenerLog : ~listenerLog[k].answer
    /\ \E k \in DOMAIN listenerLog : listenerLog[k].answer

\* the last call of a public method of the interceptor
LastInterceptorCall == interceptorCalls[Len(interceptorCalls)]

\* C22: after detach() has returned no listener of the interceptor is left on
\* window and no listener of it has run since, whatever lists (a category
\* twice included) the interceptor was given; a second detach() changes
\* nothing
C22_DetachRemovesEveryListener ==
    (interceptorCalls # <<>> /\ LastInterceptorCall.op = "detach") =>
        /\ windowListeners = {}
        /\ activeListeners = {}
        /\ Len(listenerLog) = LastInterceptorCall.runs
        /\ (Len(interceptorCalls) > 1
             /\ interceptorCalls[Len(interceptorCalls) - 1].op = "detach")
            => LastInterceptorCall.before = windowListeners

\* C23: after updateEventTypes(newTypes) has returned the categories with a
\* listener of the interceptor on window are exactly those of newTypes
C23_UpdateInstallsExactlyNewTypes ==
    (interceptorCalls # <<>> /\ LastInterceptorCall.op = "updateEventTypes") =>
        { l.type : l \in windowListeners } =
            { LastInterceptorCall.eventTypes[i] : i \in DOMAIN LastInterceptorCall.eventTypes }

(***************************************************************************)
(* Properties of the MetricsCollector (SpecCollector)                      *)
(***************************************************************************)
\* C24: getMetrics() is a pure read that returns a fresh copy: the call
\* changes no counter and no rolling window, an object it returned keeps the
\* fields it was returned with whatever is called on the collector later, and
\* what the consumer writes into the object does not reach the collector
C24_GetMetricsReturnsFreshCopy ==
    [][/\ (collectorCalls'.count = collectorCalls.count + 1
           /\ collectorCalls'.last = "getMetrics") => collector' = collector
       /\ \A i \in DOMAIN snapshots' :
             snapshots'[i].fields =
                 IF snapshots'[i].written
                 THEN [snapshots'[i].returned EXCEPT !.rawEventCount = ConsumerMark]
                 ELSE snapshots'[i].returned
       /\ collector'.metrics.rawEventCount # ConsumerMark]_vars

\* an object returned before the collector counted another raw event, and an
\* object the consumer wrote into
C24_Witness ==
    /\ \E i \in DOMAIN snapshots :
          /\ ~snapshots[i].written
          /\ snapshots[i].fields.rawEventCount < collector.metrics.rawEventCount
    /\ \E i \in DOMAIN snapshots : snapshots[i].written

\* C25: reset() returns the collector to its initial state from any state:
\* pollingRate 'unknown', the six numbers 0, both rolling windows empty; one
\* recordProcessingTime(x) after it gives the average x, one updateFPS() after
\* it leaves currentFPS 0
C25_ResetRestoresInitialCollector ==
    [][/\ collectorCalls'.last = "reset" =>
             /\ collector'.metrics.pollingRate = "unknown"
             /\ collector'.metrics.detectedHz = 0
             /\ collector'.metrics.rawEventCount = 0
             /\ collector'.metrics.flushedEventCount = 0
             /\ collector'.metrics.reductionPercentage = 0
             /\ collector'.metrics.currentFPS = Num(0)
             /\ collector'.metrics.averageProcessingTime = DZero
             /\ collector'.frameTimestamps = <<>>
             /\ collector'.eventProcessingTimes = <<>>
       /\ (collectorCalls.last = "reset" /\ collectorCalls'.count = collectorCalls.count + 1) =>
             /\ collectorCalls'.last = "recordProcessingTime" =>
                   collector'.metrics.averageProcessingTime =
                       FDiv(recordedTimes'[Len(recordedTimes')], TicksPerMs)
             /\ collectorCalls'.last = "updateFPS" =>
                   collector'.metrics.currentFPS = Num(0)]_vars

\* one processing time recorded after a reset() of a collector that had
\* another average before
C25_Witness ==
    /\ collectorCalls.last = "recordProcessingTime"
    /\ Len(recordedTimes) = 1
    /\ Len(collector.eventProcessingTimes) = 1
    /\ \E i \in DOMAIN snapshots :
          /\ snapshots[i].returned.averageProcessingTime # DZero
          /\ snapshots[i].returned.averageProcessingTime
                 # collector.metrics.averageProcessingTime

\* C27: the frame window never holds more than 60 timestamps; with fewer
\* than 2 currentFPS keeps its value (0 initially); with at least 2 it is
\* (count - 1) / (newest - oldest) * 1000 over the window, to the nearest
\* integer, and a finite number also when the frames were recorded at one
\* clock value
C27_FPSFromFrameWindow ==
    LET frames == collector.frameTimestamps
        fps == collector.metrics.currentFPS
        duration == frames[Len(frames)] - frames[1]
    IN  /\ Len(frames) <= MAX_FRAME_SAMPLES
        /\ fps.tag = "number"
        /\ Len(frames) < 2 => fps = Num(0)
        /\ (Len(frames) >= 2 /\ duration > 0) =>
              Abs(2 * fps.n * duration - 2000 * (Len(frames) - 1)) <= duration

(***************************************************************************)
(* Properties of the MetricsCollector (SpecProcessing)                     *)
(***************************************************************************)
\* the last min(n, 100) of the n processing times recorded
LastRecorded ==
    SubSeq(recordedTimes,
           IF Len(recordedTimes) > MAX_PROCESSING_SAMPLES
           THEN Len(recordedTimes) - MAX_PROCESSING_SAMPLES + 1 ELSE 1,
           Len(recordedTimes))

\* C26: the processing-time window never holds more than 100 samples, it
\* holds the last min(n, 100) of the n values recorded (the oldest leaves
\* first), and averageProcessingTime is their arithmetic mean; 1.5 ms then
\* 2.5 ms give 2.0 ms
C26_AverageOverLastHundred ==
    /\ Len(collector.eventProcessingTimes) <= MAX_PROCESSING_SAMPLES
    /\ collector.eventProcessingTimes = LastRecorded
    /\ recordedTimes # <<>> =>
          collector.metrics.averageProcessingTime =
              FDiv(SumRange(LastRecorded, 1, Len(LastRecorded)),
                   TicksPerMs * Len(LastRecorded))
    /\ recordedTimes = <<12, 20>> => collector.metrics.averageProcessingTime = FDiv(2, 1)

\* 101 values recorded, the first one, which differs from the last, evicted
C26_Witness ==
    /\ Len(recordedTimes) = MAX_PROCESSING_SAMPLES + 1
    /\ recordedTimes[1] # recordedTimes[Len(recordedTimes)]
    /\ Len(collector.eventProcessingTimes) = MAX_PROCESSING_SAMPLES

(***************************************************************************)
(* Properties of the pipeline under a steady stream (SpecSteady)           *)
(***************************************************************************)
\* F refresh callbacks have run, each after k more events than the one
\* before, no event has come since the last one, and every handleFlush call
\* has resumed from its yield and ended
SteadyIntervals(k, F) ==
    /\ Len(refreshLog) = F
    /\ \A i \in DOMAIN refreshLog : refreshLog[i] = k * i
    /\ Len(submittedLog) = k * F
    /\ pendingYields = <<>>

\* C28: with k >= 1 events intercepted in each of F refresh intervals and
\* every continuation completed, F flushes are recorded, rawEventCount is
\* k * F, flushedEventCount is F and reductionPercentage is
\* round(100 * (k - 1) / k)
C28_SteadyRateReduction ==
    \A k \in 1..MaxSteadyEvents, F \in 1..MaxSteadyEvents :
        SteadyIntervals(k, F) =>
            /\ Len(completedFlushes) = F
            /\ collector.metrics.rawEventCount = k * F
            /\ collector.metrics.flushedEventCount = F
            /\ collector.metrics.reductionPercentage = (200 * (k - 1) + k) \div (2 * k)

\* two events in each of two refresh intervals: 4 raw events, 2 flushes,
\* a reduction of 50 percent
C28_Witness ==
    /\ SteadyIntervals(2, 2)
    /\ Len(completedFlushes) = 2
    /\ collector.metrics.reductionPercentage = 50

(***************************************************************************)
(* Properties of the SamplingBuffer on events without delta fields (Spec)  *)
(***************************************************************************)
NumericDeltas(deltas) ==
    /\ deltas.deltaX.tag = "number"
    /\ deltas.deltaY.tag = "number"
    /\ deltas.deltaZ.tag = "number"

\* a delta field as a number, a missing one counting 0
PresentDelta(v) == IF v.tag = "number" THEN v ELSE Num(0)

\* the deltas of the wheel and scroll events among events, their missing
\* fields counting 0
RECURSIVE PresentTotal(_)
PresentTotal(events) ==
    IF events = <<>> THEN ZeroDeltas
    ELSE IF isScrollEvent(Head(events))
         THEN LET rest == PresentTotal(Tail(events)) IN
              [deltaX |-> JSAdd(rest.deltaX, PresentDelta(Head(events).deltaX)),
               deltaY |-> JSAdd(rest.deltaY, PresentDelta(Head(events).deltaY)),
               deltaZ |-> JSAdd(rest.deltaZ, PresentDelta(Head(events).deltaZ))]
         ELSE PresentTotal(Tail(events))

\* C29: a scroll-type event without numeric delta fields adds only the
\* fields it has: the accumulated deltas are numbers at all times, and the
\* deltas handed to the flush callback are numbers, those of the interval's
\* wheel and scroll events with a missing field counting 0
C29_MissingDeltasCountAsZero ==
    /\ NumericDeltas(accumulatedDeltas)
    /\ \A i \in DOMAIN deliveredLog :
          deliveredLog[i].deltas # Undefined =>
              /\ NumericDeltas(deliveredLog[i].deltas)
              /\ deliveredLog[i].deltas = PresentTotal(IntervalEvents(deliveredLog[i].refresh))

(***************************************************************************)
(* Properties of the reporting timer (SpecReporting)                       *)
(***************************************************************************)
\* C30: every firing of the reporting timer calls onMetrics exactly once,
\* with a new object holding the collector's metrics of that moment; a timer
\* runs only while the effect run that started it is in place, so that after
\* the cleanup no firing and no onMetrics call of that run happens
C30_TimerReportsUntilCleanup ==
    /\ \A k \in DOMAIN onMetricsLog :
          LET firing == onMetricsLog[k] IN
          /\ Len(firing.calls) = 1
          /\ ~firing.calls[1].shared
          /\ firing.calls[1].fields = [firing.metrics EXCEPT !.timestamp = firing.time]
          /\ firing.mounted
          /\ firing.owner = firing.cleanups
    /\ \A timer \in intervalTimers : mounted /\ timerOwner[timer] = teardowns

\* the timer of the first effect run fired, then the cleanup ran, and either
\* no timer is left or the timer of the next run has fired as well
C30_Witness ==
    /\ \E k \in DOMAIN onMetricsLog : onMetricsLog[k].owner = 0
    /\ teardowns > 0
    /\ \/ intervalTimers = {}
       \/ \E k \in DOMAIN onMetricsLog : onMetricsLog[k].owner = teardowns

(***************************************************************************)
(* Further properties of the MetricsCollector (SpecMetrics)                *)
(***************************************************************************)
\* C31: after any sequence of recordRawEvent, recordFlushedEvent and reset
\* calls reductionPercentage lies within 0..100
C31_ReductionWithinPercentRange ==
    /\ collector.metrics.reductionPercentage >= 0
    /\ collector.metrics.reductionPercentage <= 100

(***************************************************************************)
(* Properties of the SamplingBuffer with a re-entering callback            *)
(* (SpecReentrant)                                                         *)
(***************************************************************************)
\* C32: a buffer never has more than one refresh callback outstanding: every
\* flush leaves the buffer with none scheduled, and a buffer() call on the
\* active buffer outside a flush leaves exactly one outstanding, the one
\* rafId names
C32_OneRefreshCallbackOutstanding ==
    [][/\ Cardinality(rafQueue') <= 1
       /\ Len(refreshLog') > Len(refreshLog) => rafId' = NoRaf
       /\ (Len(submittedLog') > Len(submittedLog) /\ refreshLog' = refreshLog /\ isActive) =>
             /\ rafId' # NoRaf
             /\ rafQueue' = {rafId'}]_vars

\* a second buffer() call while a callback is outstanding, and a buffer()
\* call that schedules again after a flush
C32_Witness ==
    /\ refreshLog # <<>>
    /\ refreshLog[1] >= 2
    /\ Len(submittedLog) > refreshLog[Len(refreshLog)]
    /\ rafQueue = {rafId}

\* C34: between the operations of an active buffer an event is pending
\* exactly when a flush is scheduled, and the accumulated deltas are {0,0,0}
\* whenever no event is pending
C34_PendingIffScheduled ==
    isActive =>
        /\ (latestEvent # NullEvent) <=> (rafId # NoRaf)
        /\ (rafId # NoRaf) <=> (rafQueue # {})
        /\ latestEvent = NullEvent => accumulatedDeltas = ZeroDeltas

\* after a flush whose callback called buffer(): nothing pending, nothing
\* scheduled
C34_Witness ==
    /\ isActive
    /\ deliveredLog # <<>>
    /\ Len(submittedLog) > refreshLog[Len(refreshLog)]
    /\ latestEvent = NullEvent
    /\ rafId = NoRaf

\* the event submitted i-th, or a later one, has been handed to the callback
DeliveredFrom(i) ==
    \E j \in DOMAIN deliveredLog :
        \E k \in DOMAIN submittedLog :
            k >= i /\ submittedLog[k].id = deliveredLog[j].event.id

\* C35: on a buffer that is never destroyed, with the refresh callbacks
\* firing, every event submitted is eventually delivered or superseded by a
\* later one that is delivered, an event submitted from inside the flush
\* callback included
C35_SubmittedEventuallyDelivered ==
    \A i \in 1..MaxSubmits :
        [](i \in DOMAIN submittedLog => <>(DeliveredFrom(i) \/ destroyInfo.calls > 0))

\* C36: once destroy() has been called, from inside the flush callback or
\* not, the buffer is inactive in every later state, with no pending event,
\* accumulated deltas {0,0,0} and no flush scheduled
C36_DestroyedStaysCleared ==
    destroyInfo.calls > 0 =>
        /\ ~isActive
        /\ latestEvent = NullEvent
        /\ accumulatedDeltas = ZeroDeltas
        /\ rafId = NoRaf
        /\ rafQueue = {}

\* destroy() was called from inside the flush callback, and buffer() was
\* called afterwards
C36_Witness ==
    /\ destroyInfo.calls > 0
    /\ destroyInfo.inCallback
    /\ Len(submittedLog) > destroyInfo.submits

(***************************************************************************)
(* Properties of shouldBuffer in the pipeline (SpecClassify)               *)
(***************************************************************************)
\* C33: every event a listener of the pipeline receives adds exactly one to
\* rawEventCount, whatever its type; a pointer event is passed to the
\* detector and its answer written to pollingRate and detectedHz; a wheel,
\* touchmove or scroll event leaves the detector and the classification as
\* they were
C33_RawCountedPointerClassified ==
    [][Len(submittedLog') > Len(submittedLog) =>
          /\ collector'.metrics.rawEventCount = collector.metrics.rawEventCount + 1
          /\ IF submittedLog'[Len(submittedLog')].type = "pointermove"
             THEN /\ Len(callTimes') = Len(callTimes) + 1
                  /\ collector'.metrics.pollingRate = lastResult'
                  /\ collector'.metrics.detectedHz = detector'.detectedHz
             ELSE /\ callTimes' = callTimes
                  /\ detector' = detector
                  /\ collector'.metrics.pollingRate = collector.metrics.pollingRate
                  /\ collector'.metrics.detectedHz = collector.metrics.detectedHz]_vars

\* ten pointer events classified the device, then a listener received an
\* event of another type
C33_Witness ==
    /\ collector.metrics.pollingRate \in {"high", "standard"}
    /\ collector.metrics.detectedHz > 0
    /\ submittedLog # <<>>
    /\ submittedLog[Len(submittedLog)].type # "pointermove"
    /\ collector.metrics.rawEventCount = Len(submittedLog)

(***************************************************************************)
(* Classification against the estimated rate (SpecDetector)                *)
(***************************************************************************)
\* C37: the classification and the estimated rate agree: a detector that
\* answered 'high' estimates more than 1000 Hz, one that answered 'standard'
\* estimates at most 1000 Hz
C37_ClassificationMatchesHz ==
    /\ detector.cachedPollingRate = "high" => detector.detectedHz > 1000
    /\ detector.cachedPollingRate = "standard" => detector.detectedHz <= 1000

====
